---- MODULE Spec2Model ----
(***************************************************************************)
(* Settlement and authorization helpers of the auction-house program       *)
(* (auction-house/program/src/utils.rs) and the record validation of the   *)
(* token-metadata program (token-metadata/program/src/utils.rs).           *)
(*                                                                         *)
(* Every behaviour is one transaction: Init draws the transaction's       *)
(* inputs (inp), the actions run the program's functions on them.          *)
(*                                                                         *)
(* Integer widths are scaled so that TLC's 32-bit integers can hold every  *)
(* intermediate value: u64 is WordBits bits wide, u16 and u8 keep their    *)
(* widths, and u128 is WordBits + 16 bits wide, which keeps the property   *)
(* of the source that a u16 * u64 (and a u8 * u64) product always fits     *)
(* the wide type while the quotient need not fit the narrow one.           *)
(***************************************************************************)
EXTENDS Integers, Sequences, FiniteSets, TLC

VARIABLES inp, pc, bal, issued, created, feeRes, royalty, res, market, master_edition

vars == <<inp, pc, bal, issued, created, feeRes, royalty, res, market, master_edition>>

----------------------------------------------------------------------------
(* Integer types *)

WordBits == 13

U64Max == 2^WordBits - 1

U128Max == 2^(WordBits + 16) - 1

U16Max == 2^16 - 1

U8Max == 2^8 - 1

BasisPointsDenominator == 10000

PercentDenominator == 100

(* Result<T> / Option<T> *)
Ok(v) == [ok |-> TRUE, val |-> v, err |-> "none"]

Err(e) == [ok |-> FALSE, val |-> 0, err |-> e]

NoResult == [ok |-> FALSE, val |-> 0, err |-> "not_called"]

(* u128::checked_mul *)
checked_mul(a, b) == IF a * b > U128Max THEN Err("None") ELSE Ok(a * b)

(* u128::checked_div *)
checked_div(a, b) == IF b = 0 THEN Err("None") ELSE Ok(a \div b)

(* u64::checked_sub *)
checked_sub(a, b) == IF a < b THEN Err("None") ELSE Ok(a - b)

(* u64::checked_add *)
checked_add(a, b) == IF a + b > U64Max THEN Err("None") ELSE Ok(a + b)

(* u64::saturating_sub *)
saturating_sub(a, b) == IF a < b THEN 0 ELSE a - b

(* `x as u64`: the low bits of a u128, silently *)
AsU64(x) == x % (U64Max + 1)

(* (fees as u128).checked_mul(size as u128)?.checked_div(10000)? as u64 *)
BasisPointFeePercent(fees, size) ==
    LET m == checked_mul(fees, size)
    IN  IF ~m.ok THEN Err("NumericalOverflow")
        ELSE Ok(AsU64(m.val \div PercentDenominator))

BasisPointFee(fees, size) ==
    LET m == checked_mul(fees, size)
    IN  IF ~m.ok THEN Err("NumericalOverflow")
        ELSE LET d == checked_div(m.val, BasisPointsDenominator)
             IN  IF ~d.ok THEN Err("NumericalOverflow") ELSE Ok(AsU64(d.val))

(* pct.checked_mul(total_fee as u128)?.checked_div(100)? as u64 *)
CreatorFeeRoundedUp(pct, total_fee) ==
    LET m == checked_mul(pct, total_fee)
    IN  IF ~m.ok THEN Err("NumericalOverflow")
        ELSE Ok(AsU64((m.val + PercentDenominator - 1) \div PercentDenominator))

CreatorFeeBasisPoints(pct, total_fee) ==
    LET m == checked_mul(pct, total_fee)
    IN  IF ~m.ok THEN Err("NumericalOverflow")
        ELSE Ok(AsU64(m.val \div BasisPointsDenominator))

CreatorFee(pct, total_fee) ==
    LET m == checked_mul(pct, total_fee)
    IN  IF ~m.ok THEN Err("NumericalOverflow")
        ELSE LET d == checked_div(m.val, PercentDenominator)
             IN  IF ~d.ok THEN Err("NumericalOverflow") ELSE Ok(AsU64(d.val))

----------------------------------------------------------------------------
(* Accounts *)

EscrowKey == 10

TreasuryKey == 11

SellerKey == 12

TreasuryMint == 30

StrangerKey == 4

CreatorWallets == {1, 2, 3}

(* spl_associated_token_account::get_associated_token_address: an address
   of its own for every wallet and mint *)
AtaAddress(wallet, mint) == 20 + wallet + 10 * (mint - TreasuryMint)

AllKeys ==
    {EscrowKey, TreasuryKey, SellerKey, StrangerKey} \cup CreatorWallets
        \cup {AtaAddress(w, TreasuryMint) : w \in CreatorWallets \cup {StrangerKey}}

(* AccountInfo of a wallet (system account) *)
WalletInfo(k) ==
    [key |-> k, program |-> "system", empty |-> TRUE, tok_owner |-> 0, tok_mint |-> 0]

(* AccountInfo of an initialized token account *)
TokenInfo(k, owner, mint) ==
    [key |-> k, program |-> "token", empty |-> FALSE, tok_owner |-> owner, tok_mint |-> mint]

(* system_instruction::transfer / spl_token::instruction::transfer through
   invoke_signed: the debit fails when the source holds less than amount. *)
Transfer(b, from, to, amount) ==
    IF b[from] < amount THEN [ok |-> FALSE, bal |-> b, err |-> "InsufficientFunds"]
    ELSE IF from = to THEN [ok |-> TRUE, bal |-> b, err |-> "none"]
    ELSE IF b[to] + amount > U64Max THEN [ok |-> FALSE, bal |-> b, err |-> "Overflow"]
    ELSE [ok |-> TRUE,
          bal |-> [b EXCEPT ![from] = @ - amount, ![to] = @ + amount],
          err |-> "none"]

(* One CPI transfer as the program issues it *)
TransferIx(kind, from, to, amount) ==
    [kind |-> kind, from |-> from, to |-> to, amount |-> amount]

----------------------------------------------------------------------------
(* pay_auction_house_fees: the commission, transferred from the escrow to
   the treasury (a transfer of 0 is issued too) and returned. *)
PayAuctionHouseFees(fees, size, is_native, b) ==
    LET total_fee == BasisPointFee(fees, size)
    IN  IF ~total_fee.ok
        THEN [res |-> Err("NumericalOverflow"), bal |-> b, issued |-> <<>>]
        ELSE LET ix == TransferIx(IF is_native THEN "system" ELSE "token",
                                  EscrowKey, TreasuryKey, total_fee.val)
                 t  == Transfer(b, EscrowKey, TreasuryKey, total_fee.val)
             IN  IF ~t.ok
                 THEN [res |-> Err(t.err), bal |-> b, issued |-> <<ix>>]
                 ELSE [res |-> Ok(total_fee.val), bal |-> t.bal, issued |-> <<ix>>]

(* make_ata: create_associated_token_account(fee_payer, wallet, mint) on the
   account passed as ata; the associated-token program refuses an account
   that is not the wallet's associated address. *)
MakeAta(ata, wallet, mint) ==
    IF ata.key = AtaAddress(wallet, mint)
    THEN [ok |-> TRUE, info |-> TokenInfo(ata.key, wallet, mint), err |-> "none"]
    ELSE [ok |-> FALSE, info |-> ata, err |-> "InvalidSeeds"]

(* assert_keys_equal *)
AssertKeysEqual(key1, key2) ==
    IF key1 # key2 THEN Err("PublicKeyMismatch") ELSE Ok(0)

(* assert_is_ata: owned by the token program, initialized, owner, mint, address *)
AssertIsAta(ata, wallet, mint) ==
    IF ata.program # "token" THEN Err("IncorrectOwner")
    ELSE IF ata.empty THEN Err("UninitializedAccount")
    ELSE IF ~AssertKeysEqual(ata.tok_owner, wallet).ok THEN Err("PublicKeyMismatch")
    ELSE IF ~AssertKeysEqual(ata.tok_mint, mint).ok THEN Err("PublicKeyMismatch")
    ELSE IF ~AssertKeysEqual(AtaAddress(wallet, mint), ata.key).ok
         THEN Err("PublicKeyMismatch")
    ELSE Ok(0)

(* The CPI that creates the associated token account k, in the order of
   the CPIs pay_creator_fees issues *)
CreateEvent(k) == [kind |-> "create", from |-> k, to |-> k, amount |-> 0]

(* The state of the loop over metadata.data.creators in pay_creator_fees *)
LoopFail(st, e) == [st EXCEPT !.ok = FALSE, !.err = e]

(* The token-account half with the transfer issued before the account is
   created and checked *)
CreatorTokenLegTransferFirst(c, creator, creator_fee, st) ==
    IF st.cursor > Len(c.accounts) THEN LoopFail(st, "NotEnoughAccountKeys")
    ELSE
    LET passed == c.accounts[st.cursor]
        st1    == [st EXCEPT !.cursor = @ + 1]
        ix     == TransferIx("token", EscrowKey, passed.key, creator_fee)
        t      == Transfer(st1.bal, EscrowKey, passed.key, creator_fee)
        st2    == IF creator_fee > 0
                  THEN [st1 EXCEPT !.issued = Append(@, ix),
                                   !.events = Append(@, ix)]
                  ELSE st1
    IN  IF creator_fee > 0 /\ ~t.ok THEN LoopFail(st2, t.err)
        ELSE
        LET st3  == IF creator_fee > 0 THEN [st2 EXCEPT !.bal = t.bal] ELSE st2
            made == IF passed.empty
                    THEN MakeAta(passed, creator.address, TreasuryMint)
                    ELSE [ok |-> TRUE, info |-> passed, err |-> "none"]
        IN  IF ~made.ok THEN LoopFail(st3, made.err)
            ELSE
            LET st4 == IF passed.empty
                       THEN [st3 EXCEPT !.created = @ \cup {passed.key},
                                        !.events = Append(@, CreateEvent(passed.key))]
                       ELSE st3
                chk == AssertIsAta(made.info, creator.address, TreasuryMint)
            IN  IF ~chk.ok THEN LoopFail(st4, chk.err) ELSE st4

(* The token-account half of one iteration (is_native = false): take the
   next account, create it when empty, check it, transfer when the fee > 0 *)
CreatorTokenLeg(c, creator, creator_fee, st) ==
    IF st.cursor > Len(c.accounts) THEN LoopFail(st, "NotEnoughAccountKeys")
    ELSE
    LET passed == c.accounts[st.cursor]
        st1    == [st EXCEPT !.cursor = @ + 1]
        made   == IF passed.empty
                  THEN MakeAta(passed, creator.address, TreasuryMint)
                  ELSE [ok |-> TRUE, info |-> passed, err |-> "none"]
    IN  IF ~made.ok THEN LoopFail(st1, made.err)
        ELSE
        LET st2 == IF passed.empty
                   THEN [st1 EXCEPT !.created = @ \cup {passed.key},
                                    !.events = Append(@, CreateEvent(passed.key))]
                   ELSE st1
            chk == AssertIsAta(made.info, creator.address, TreasuryMint)
        IN  IF ~chk.ok THEN LoopFail(st2, chk.err)
            ELSE IF creator_fee > 0
            THEN LET ix == TransferIx("token", EscrowKey, passed.key, creator_fee)
                     t  == Transfer(st2.bal, EscrowKey, passed.key, creator_fee)
                     st3 == [st2 EXCEPT !.issued = Append(@, ix),
                                        !.events = Append(@, ix)]
                 IN  IF ~t.ok THEN LoopFail(st3, t.err)
                     ELSE [st3 EXCEPT !.bal = t.bal]
            ELSE st2

(* The native half of one iteration: transfer to the account the cursor
   has just passed when the fee > 0 *)
CreatorNativeLegNoTransfer(c, creator, creator_fee, st) == st

CreatorNativeLegIgnoringFailure(c, creator, creator_fee, st) ==
    IF creator_fee > 0
    THEN LET current_creator_info == c.accounts[st.cursor - 1]
             ix == TransferIx("system", EscrowKey, current_creator_info.key, creator_fee)
             t  == Transfer(st.bal, EscrowKey, current_creator_info.key, creator_fee)
             st1 == [st EXCEPT !.issued = Append(@, ix),
                               !.events = Append(@, ix)]
         IN  IF ~t.ok THEN st1 ELSE [st1 EXCEPT !.bal = t.bal]
    ELSE st

CreatorNativeLeg(c, creator, creator_fee, st) ==
    IF creator_fee > 0
    THEN LET current_creator_info == c.accounts[st.cursor - 1]
             ix == TransferIx("system", EscrowKey, current_creator_info.key, creator_fee)
             t  == Transfer(st.bal, EscrowKey, current_creator_info.key, creator_fee)
             st1 == [st EXCEPT !.issued = Append(@, ix),
                               !.events = Append(@, ix)]
         IN  IF ~t.ok THEN LoopFail(st1, t.err)
             ELSE [st1 EXCEPT !.bal = t.bal]
    ELSE st

(* One iteration that passes over a recipient whose account is another's *)
CreatorStepSkippingMismatch(c, creator, st) ==
    LET creator_fee == CreatorFee(creator.share, c.total_fee)
    IN  IF ~creator_fee.ok THEN LoopFail(st, "NumericalOverflow")
        ELSE
        LET rem == checked_sub(st.remaining_fee, creator_fee.val)
        IN  IF ~rem.ok THEN LoopFail(st, "NumericalOverflow")
            ELSE
            LET st1 == [st EXCEPT !.remaining_fee = rem.val,
                                  !.fees = Append(@, creator_fee.val)]
            IN  IF st1.cursor > Len(c.accounts)
                THEN LoopFail(st1, "NotEnoughAccountKeys")
                ELSE
                LET current_creator_info == c.accounts[st1.cursor]
                    st2 == [st1 EXCEPT !.cursor = @ + 1]
                IN  IF ~AssertKeysEqual(creator.address, current_creator_info.key).ok
                    THEN st2
                    ELSE IF ~c.is_native
                    THEN CreatorTokenLeg(c, creator, creator_fee.val, st2)
                    ELSE CreatorNativeLeg(c, creator, creator_fee.val, st2)

(* One iteration of `for creator in creators` *)
CreatorStep(c, creator, st) ==
    LET creator_fee == CreatorFee(creator.share, c.total_fee)
    IN  IF ~creator_fee.ok THEN LoopFail(st, "NumericalOverflow")
        ELSE
        LET rem == checked_sub(st.remaining_fee, creator_fee.val)
        IN  IF ~rem.ok THEN LoopFail(st, "NumericalOverflow")
            ELSE
            LET st1 == [st EXCEPT !.remaining_fee = rem.val,
                                  !.fees = Append(@, creator_fee.val)]
            IN  IF st1.cursor > Len(c.accounts)
                THEN LoopFail(st1, "NotEnoughAccountKeys")
                ELSE
                LET current_creator_info == c.accounts[st1.cursor]
                    st2 == [st1 EXCEPT !.cursor = @ + 1]
                IN  IF ~AssertKeysEqual(creator.address, current_creator_info.key).ok
                    THEN LoopFail(st2, "PublicKeyMismatch")
                    ELSE IF ~c.is_native
                    THEN CreatorTokenLeg(c, creator, creator_fee.val, st2)
                    ELSE CreatorNativeLeg(c, creator, creator_fee.val, st2)

RECURSIVE CreatorLoop(_, _, _)
CreatorLoop(c, i, st) ==
    IF ~st.ok \/ i > Len(c.creators) THEN st
    ELSE CreatorLoop(c, i + 1, CreatorStep(c, c.creators[i], st))

(* "Any dust is returned to the party posting the NFT":
   remaining_size.checked_add(remaining_fee) *)
DustWithoutRemainingFee(remaining_size, remaining_fee) == Ok(remaining_size)

Dust(remaining_size, remaining_fee) ==
    LET d == checked_add(remaining_size, remaining_fee)
    IN  IF ~d.ok THEN Err("NumericalOverflow") ELSE Ok(d.val)

(* The value pay_creator_fees hands back, with the locals the properties
   are stated on *)
RoyaltyOut(r, total_fee, remaining_size, st) ==
    [res |-> r, total_fee |-> total_fee, remaining_size |-> remaining_size,
     remaining_fee |-> st.remaining_fee, fees |-> st.fees, bal |-> st.bal,
     issued |-> st.issued, created |-> st.created, events |-> st.events]

(* pay_creator_fees with the royalty taken of what the escrow holds *)
PayCreatorFeesOfEscrowBalance(metadata, accounts, size, is_native, b) ==
    LET st0 == [ok |-> TRUE, err |-> "none", remaining_fee |-> 0, cursor |-> 1,
                bal |-> b, issued |-> <<>>, created |-> {}, fees |-> <<>>,
                events |-> <<>>]
        total_fee == BasisPointFee(metadata.seller_fee_basis_points, b[EscrowKey])
    IN  IF ~total_fee.ok THEN RoyaltyOut(Err("NumericalOverflow"), 0, 0, st0)
        ELSE
        LET remaining_size == checked_sub(b[EscrowKey], total_fee.val)
        IN  IF ~remaining_size.ok
            THEN RoyaltyOut(Err("NumericalOverflow"), total_fee.val, 0, st0)
            ELSE
            LET c  == [creators |-> metadata.creators.list, accounts |-> accounts,
                       total_fee |-> total_fee.val, is_native |-> is_native]
                st1 == [st0 EXCEPT !.remaining_fee = total_fee.val]
                st == IF metadata.creators.some THEN CreatorLoop(c, 1, st1) ELSE st1
            IN  IF ~st.ok
                THEN RoyaltyOut(Err(st.err), total_fee.val, remaining_size.val, st)
                ELSE
                RoyaltyOut(Dust(remaining_size.val, st.remaining_fee),
                           total_fee.val, remaining_size.val, st)

(* pay_creator_fees, from the deserialized metadata on *)
PayCreatorFees(metadata, accounts, size, is_native, b) ==
    LET st0 == [ok |-> TRUE, err |-> "none", remaining_fee |-> 0, cursor |-> 1,
                bal |-> b, issued |-> <<>>, created |-> {}, fees |-> <<>>,
                events |-> <<>>]
        total_fee == BasisPointFee(metadata.seller_fee_basis_points, size)
    IN  IF ~total_fee.ok THEN RoyaltyOut(Err("NumericalOverflow"), 0, 0, st0)
        ELSE
        LET remaining_size == checked_sub(size, total_fee.val)
        IN  IF ~remaining_size.ok
            THEN RoyaltyOut(Err("NumericalOverflow"), total_fee.val, 0, st0)
            ELSE
            LET c  == [creators |-> metadata.creators.list, accounts |-> accounts,
                       total_fee |-> total_fee.val, is_native |-> is_native]
                st1 == [st0 EXCEPT !.remaining_fee = total_fee.val]
                st == IF metadata.creators.some THEN CreatorLoop(c, 1, st1) ELSE st1
            IN  IF ~st.ok
                THEN RoyaltyOut(Err(st.err), total_fee.val, remaining_size.val, st)
                ELSE
                RoyaltyOut(Dust(remaining_size.val, st.remaining_fee),
                           total_fee.val, remaining_size.val, st)

----------------------------------------------------------------------------
(* Program-derived addresses.  The hash is a small stand-in for SHA-256
   over the seeds, the bump seed and the program id; as with the real
   one a bump seed that lands off the curve always exists, and distinct
   seeds may collide because the address space is finite. *)

AddressSpace == 13

MaxBumpSeed == 3

AuctionHouseProgram == 5

TokenMetadataProgram == 6

(* PREFIX.as_bytes() *)
PrefixBytes == <<97, 117>>

(* Pubkey::as_ref() *)
KeyBytes(k) == <<k>>

(* u64::to_le_bytes() *)
RECURSIVE LeBytes(_, _)
LeBytes(n, k) == IF k = 0 THEN <<>> ELSE <<n % 256>> \o LeBytes(n \div 256, k - 1)

to_le_bytes(n) == LeBytes(n, 8)

RECURSIVE Concat(_)
Concat(seeds) == IF seeds = <<>> THEN <<>> ELSE Head(seeds) \o Concat(Tail(seeds))

RECURSIVE HashBytes(_, _)
HashBytes(h, bytes) ==
    IF bytes = <<>> THEN h
    ELSE HashBytes((h * 31 + Head(bytes) + 7) % AddressSpace, Tail(bytes))

(* Pubkey::create_program_address: the hash of seeds, bump and program id,
   refused when it is a point of the curve *)
CreateProgramAddress(seeds, bump, program_id) ==
    LET key == HashBytes(program_id % AddressSpace, Concat(seeds) \o <<bump>>)
    IN  IF key % 2 = 0 THEN Err("InvalidSeeds") ELSE Ok(key)

(* Pubkey::find_program_address: the highest bump seed whose address is
   valid *)
RECURSIVE TryBump(_, _, _)
TryBump(seeds, bump, program_id) ==
    LET a == CreateProgramAddress(seeds, bump, program_id)
    IN  IF a.ok THEN [found |-> TRUE, key |-> a.val, bump |-> bump]
        ELSE IF bump = 0 THEN [found |-> FALSE, key |-> 0, bump |-> 0]
        ELSE TryBump(seeds, bump - 1, program_id)

FindProgramAddress(seeds, program_id) == TryBump(seeds, MaxBumpSeed, program_id)

(* assert_derivation (auction-house) *)
AssertDerivationNoCompare(program_id, account_key, path) ==
    Ok(FindProgramAddress(path, program_id).bump)

AssertDerivation(program_id, account_key, path) ==
    LET d == FindProgramAddress(path, program_id)
    IN  IF ~d.found THEN Err("Panic")
        ELSE IF d.key # account_key THEN Err("DerivedKeyInvalid")
        ELSE Ok(d.bump)

(* assert_derivation (token-metadata) *)
MetadataAssertDerivation(program_id, account_key, path) ==
    LET d == FindProgramAddress(path, program_id)
    IN  IF ~d.found THEN Err("Panic")
        ELSE IF d.key # account_key THEN Err("DerivedKeyInvalid")
        ELSE Ok(d.bump)

(* The seeds of a trade state: with the token holder (private) *)
TradeStateSeeds(wallet, ah_key, token_holder, treasury_mint, mint, buyer_price, token_size) ==
    <<PrefixBytes, KeyBytes(wallet), KeyBytes(ah_key), KeyBytes(token_holder),
      KeyBytes(treasury_mint), KeyBytes(mint), to_le_bytes(buyer_price),
      to_le_bytes(token_size)>>

(* ... and without it (public) *)
PublicTradeStateSeeds(wallet, ah_key, treasury_mint, mint, buyer_price, token_size) ==
    <<PrefixBytes, KeyBytes(wallet), KeyBytes(ah_key), KeyBytes(treasury_mint),
      KeyBytes(mint), to_le_bytes(buyer_price), to_le_bytes(token_size)>>

(* match (canonical_public_bump, canonical_bump) *)
MatchIgnoringClaimedBump(public, private, ts_bump) ==
    IF public.ok /\ ~private.ok THEN Ok(public.val)
    ELSE IF ~public.ok /\ private.ok THEN Ok(private.val)
    ELSE Err("DerivedKeyInvalid")

MatchPrivateOnly(public, private, ts_bump) ==
    IF ~public.ok /\ private.ok /\ private.val = ts_bump THEN Ok(private.val)
    ELSE Err("DerivedKeyInvalid")

MatchNeverFailing(public, private, ts_bump) ==
    IF public.ok /\ ~private.ok /\ public.val = ts_bump THEN Ok(public.val)
    ELSE IF ~public.ok /\ private.ok /\ private.val = ts_bump THEN Ok(private.val)
    ELSE Ok(ts_bump)

MatchTradeState(public, private, ts_bump) ==
    IF public.ok /\ ~private.ok /\ public.val = ts_bump THEN Ok(public.val)
    ELSE IF ~public.ok /\ private.ok /\ private.val = ts_bump THEN Ok(private.val)
    ELSE Err("DerivedKeyInvalid")

(* assert_valid_trade_state *)
AssertValidTradeState(t) ==
    LET canonical_bump ==
            AssertDerivation(AuctionHouseProgram, t.trade_state,
                TradeStateSeeds(t.wallet, t.auction_house, t.token_holder,
                                t.treasury_mint, t.mint, t.buyer_price, t.token_size))
        canonical_public_bump ==
            AssertDerivation(AuctionHouseProgram, t.trade_state,
                PublicTradeStateSeeds(t.wallet, t.auction_house, t.treasury_mint,
                                      t.mint, t.buyer_price, t.token_size))
    IN  IF canonical_bump.err = "Panic" \/ canonical_public_bump.err = "Panic"
        THEN Err("Panic")
        ELSE MatchTradeState(canonical_public_bump, canonical_bump, t.ts_bump)

(* verify_withdrawal *)
VerifyWithdrawalFlipped(lamports, rent_minimum, amount) ==
    LET diff == checked_sub(lamports, amount)
    IN  IF ~diff.ok THEN Err("InsufficientFunds")
        ELSE Ok(saturating_sub(diff.val, rent_minimum))

VerifyWithdrawal(lamports, rent_minimum, amount) ==
    LET diff == checked_sub(lamports, amount)
    IN  IF ~diff.ok THEN Err("InsufficientFunds")
        ELSE Ok(saturating_sub(rent_minimum, diff.val))

(* Rent::minimum_balance(account.data_len()): positive for every account
   that exists; 1 stands for the smallest floor the ledger can supply *)
MinimumReserve == 1

(* verify_deposit *)
VerifyDepositWrapping(lamports, rent_minimum, amount) ==
    Ok(saturating_sub(rent_minimum, AsU64(lamports + amount)))

VerifyDeposit(lamports, rent_minimum, amount) ==
    LET total == checked_add(lamports, amount)
    IN  IF ~total.ok THEN Err("NumericalOverflow")
        ELSE Ok(saturating_sub(rent_minimum, total.val))

----------------------------------------------------------------------------
(* assert_valid_delegation.  An account here carries what the function
   reads of it: its address, the program owning it, the length of its data
   and, for token-account data, the SplAccount fields. *)

(* spl_token::state::Account::LEN *)
SplAccountLen == 165

(* spl_token::native_mint::id() *)
NativeMint == 40

NoDelegate == [some |-> FALSE, key |-> 0]

Delegate(k) == [some |-> TRUE, key |-> k]

(* AccountInfo holding SplAccount data *)
SplAccountInfo(k, program, initialized, owner, mint, delegate, delegated_amount) ==
    [key |-> k, program |-> program, empty |-> ~initialized,
     data_len |-> SplAccountLen, tok_owner |-> owner, tok_mint |-> mint,
     delegate |-> delegate, delegated_amount |-> delegated_amount,
     is_signer |-> FALSE]

(* AccountInfo of a system account without data *)
SystemAccountInfo(k, is_signer) ==
    [key |-> k, program |-> "system", empty |-> TRUE, data_len |-> 0,
     tok_owner |-> 0, tok_mint |-> 0, delegate |-> NoDelegate,
     delegated_amount |-> 0, is_signer |-> is_signer]

(* SplAccount::unpack: the data has the length of a token account and the
   account is initialized *)
SplUnpack(account) ==
    IF account.data_len # SplAccountLen THEN Err("InvalidAccountData")
    ELSE IF account.empty THEN Err("UninitializedAccount")
    ELSE Ok(0)

(* The Ok(token_account) arm *)
TokenDelegationAtLeast(d) ==
    IF d.src_account.delegated_amount < d.paysize THEN Err("InvalidAccountData")
    ELSE IF d.src_account.delegate # Delegate(d.transfer_authority)
    THEN Err("InvalidAccountData")
    ELSE LET src == AssertIsAta(d.src_account, d.src_wallet.key, d.mint)
         IN  IF ~src.ok THEN src
             ELSE AssertIsAta(d.dst_account, d.dst_wallet.key, d.mint)

TokenDelegation(d) ==
    IF d.src_account.delegated_amount # d.paysize THEN Err("InvalidAccountData")
    ELSE IF d.src_account.delegate # Delegate(d.transfer_authority)
    THEN Err("InvalidAccountData")
    ELSE LET src == AssertIsAta(d.src_account, d.src_wallet.key, d.mint)
         IN  IF ~src.ok THEN src
             ELSE AssertIsAta(d.dst_account, d.dst_wallet.key, d.mint)

(* The Err(_) arm *)
NativeDelegationSignerFirst(d) ==
    IF ~d.src_wallet.is_signer THEN Err("SOLWalletMustSign")
    ELSE IF d.mint # NativeMint THEN Err("ExpectedSolAccount")
    ELSE IF ~AssertKeysEqual(d.src_wallet.key, d.src_account.key).ok
    THEN Err("PublicKeyMismatch")
    ELSE AssertKeysEqual(d.dst_wallet.key, d.dst_account.key)

NativeDelegation(d) ==
    IF d.mint # NativeMint THEN Err("ExpectedSolAccount")
    ELSE IF ~d.src_wallet.is_signer THEN Err("SOLWalletMustSign")
    ELSE IF ~AssertKeysEqual(d.src_wallet.key, d.src_account.key).ok
    THEN Err("PublicKeyMismatch")
    ELSE AssertKeysEqual(d.dst_wallet.key, d.dst_account.key)

(* assert_valid_delegation; d holds its arguments *)
AssertValidDelegation(d) ==
    IF SplUnpack(d.src_account).ok THEN TokenDelegation(d) ELSE NativeDelegation(d)

----------------------------------------------------------------------------
(* The auctioneer: the delegated authority of an auction house and the
   scopes the auction house grants it.  AuthorityScope is a closed enum of
   MAX_NUM_SCOPES variants, `scope as usize` its index into the bitmap. *)

MAX_NUM_SCOPES == 7

AuthorityScope == 0..(MAX_NUM_SCOPES - 1)

(* assert_valid_auctioneer_and_scope *)
AssertValidAuctioneerAndScopeBitFirst(auction_house_instance, auctioneer_authority, auctioneer_pda, scope) ==
    IF ~auction_house_instance.scopes[scope] THEN Err("MissingAuctioneerScope")
    ELSE IF ~AssertKeysEqual(auction_house_instance.auctioneer_address,
                             auctioneer_pda.key).ok
    THEN Err("InvalidAuctioneer")
    ELSE IF ~AssertKeysEqual(auctioneer_pda.auctioneer_authority,
                             auctioneer_authority).ok
    THEN Err("InvalidAuctioneer")
    ELSE IF ~AssertKeysEqual(auctioneer_pda.auction_house,
                             auction_house_instance.key).ok
    THEN Err("InvalidAuctioneer")
    ELSE Ok(0)

AssertValidAuctioneerAndScope(auction_house_instance, auctioneer_authority, auctioneer_pda, scope) ==
    IF ~AssertKeysEqual(auction_house_instance.auctioneer_address,
                        auctioneer_pda.key).ok
    THEN Err("InvalidAuctioneer")
    ELSE IF ~AssertKeysEqual(auctioneer_pda.auctioneer_authority,
                             auctioneer_authority).ok
    THEN Err("InvalidAuctioneer")
    ELSE IF ~AssertKeysEqual(auctioneer_pda.auction_house,
                             auction_house_instance.key).ok
    THEN Err("InvalidAuctioneer")
    ELSE IF ~auction_house_instance.scopes[scope] THEN Err("MissingAuctioneerScope")
    ELSE Ok(0)

(* assert_scopes_eq: `for scope in scopes`, returning at the first scope
   whose bit is unset; val counts the scopes the loop has looked at *)
RECURSIVE ScopesLoopFirstOnly(_, _, _)
ScopesLoopFirstOnly(scopes, scopes_array, i) ==
    IF i > Len(scopes) THEN [ok |-> TRUE, val |-> i - 1, err |-> "none"]
    ELSE IF ~scopes_array[scopes[i]]
    THEN [ok |-> FALSE, val |-> i, err |-> "MissingAuctioneerScope"]
    ELSE [ok |-> TRUE, val |-> Len(scopes), err |-> "none"]

RECURSIVE ScopesLoop(_, _, _)
ScopesLoop(scopes, scopes_array, i) ==
    IF i > Len(scopes) THEN [ok |-> TRUE, val |-> i - 1, err |-> "none"]
    ELSE IF ~scopes_array[scopes[i]]
    THEN [ok |-> FALSE, val |-> i, err |-> "MissingAuctioneerScope"]
    ELSE ScopesLoop(scopes, scopes_array, i + 1)

AssertScopesEq(scopes, scopes_array) == ScopesLoop(scopes, scopes_array, 1)

----------------------------------------------------------------------------
(* get_fee_payer: who pays the fees of an instruction, and the seeds the
   payer signs with.  The authority and the wallet are given by their
   is_signer flags and keys, the auction house by requires_sign_off. *)
GetFeePayerWithoutSignOff(authority, auction_house, wallet, auction_house_fee_account, auction_house_seeds) ==
    IF authority.is_signer
    THEN Ok([fee_payer |-> auction_house_fee_account, seeds |-> auction_house_seeds])
    ELSE IF wallet.is_signer
    THEN Ok([fee_payer |-> wallet.key, seeds |-> <<>>])
    ELSE Err("NoPayerPresent")

GetFeePayer(authority, auction_house, wallet, auction_house_fee_account, auction_house_seeds) ==
    IF authority.is_signer
    THEN Ok([fee_payer |-> auction_house_fee_account, seeds |-> auction_house_seeds])
    ELSE IF wallet.is_signer
    THEN IF auction_house.requires_sign_off
         THEN Err("CannotTakeThisActionWithoutAuctionHouseSignOff")
         ELSE Ok([fee_payer |-> wallet.key, seeds |-> <<>>])
    ELSE Err("NoPayerPresent")

----------------------------------------------------------------------------
(* The instruction discriminators: the first 8 bytes of the data of an
   instruction of the program, decoded into the variant of its family.
   The variants are the enums' discriminants. *)

PublicSale == 0

PrivateSale == 1

AuctioneerPublicSale == 2

AuctioneerPrivateSale == 3

Sell == 0

AuctioneerSell == 1

ExecuteSale == 0

AuctioneerExecuteSale == 1

Cancel == 0

AuctioneerCancel == 1

(* assert_program_bid_instruction reading no further than the 8th byte *)
AssertProgramBidInstructionPrefix(sighash) ==
    LET head == IF Len(sighash) >= 8 THEN SubSeq(sighash, 1, 8) ELSE sighash
    IN  CASE head = <<169, 84, 218, 35, 42, 206, 16, 171>> -> Ok(PublicSale)
          [] head = <<102, 6, 61, 18, 1, 218, 235, 234>> -> Ok(PrivateSale)
          [] head = <<221, 239, 99, 240, 86, 46, 213, 126>> -> Ok(AuctioneerPublicSale)
          [] head = <<17, 106, 133, 46, 229, 48, 45, 208>> -> Ok(AuctioneerPrivateSale)
          [] OTHER -> Err("InstructionMismatch")

(* assert_program_bid_instruction: a slice pattern of 8 bytes matches a
   slice of exactly 8 bytes *)
AssertProgramBidInstruction(sighash) ==
    CASE sighash = <<169, 84, 218, 35, 42, 206, 16, 171>> -> Ok(PublicSale)
      [] sighash = <<102, 6, 61, 18, 1, 218, 235, 234>> -> Ok(PrivateSale)
      [] sighash = <<221, 239, 99, 240, 86, 46, 213, 126>> -> Ok(AuctioneerPublicSale)
      [] sighash = <<17, 106, 133, 46, 229, 48, 45, 208>> -> Ok(AuctioneerPrivateSale)
      [] OTHER -> Err("InstructionMismatch")

(* assert_program_listing_instruction *)
AssertProgramListingInstruction(sighash) ==
    CASE sighash = <<51, 230, 133, 164, 1, 127, 131, 173>> -> Ok(Sell)
      [] sighash = <<251, 60, 142, 195, 121, 203, 26, 183>> -> Ok(AuctioneerSell)
      [] OTHER -> Err("InstructionMismatch")

(* assert_program_purchase_instruction *)
AssertProgramPurchaseInstruction(sighash) ==
    CASE sighash = <<37, 74, 217, 157, 79, 49, 35, 6>> -> Ok(ExecuteSale)
      [] sighash = <<68, 125, 32, 65, 251, 43, 35, 53>> -> Ok(AuctioneerExecuteSale)
      [] OTHER -> Err("InstructionMismatch")

(* assert_program_cancel_instruction *)
AssertProgramCancelInstruction(sighash) ==
    CASE sighash = <<232, 219, 223, 41, 219, 236, 220, 190>> -> Ok(Cancel)
      [] sighash = <<197, 97, 152, 196, 115, 204, 64, 215>> -> Ok(AuctioneerCancel)
      [] OTHER -> Err("InstructionMismatch")

(* assert_program_instruction_equal *)
AssertProgramInstructionEqual(sighash, expected_sighash) ==
    IF sighash # expected_sighash THEN Err("InstructionMismatch") ELSE Ok(0)

----------------------------------------------------------------------------
(* assert_data_valid (token-metadata): the validation of an asset record
   before it is stored.  The four limits are those of the token-metadata
   state module, which assert_data_valid imports. *)

MAX_NAME_LENGTH == 32

MAX_SYMBOL_LENGTH == 10

MAX_URI_LENGTH == 200

MAX_CREATOR_LIMIT == 5

(* u8::checked_add *)
checked_add_u8(a, b) == IF a + b > U8Max THEN Err("None") ELSE Ok(a + b)

Addresses(creators) == {creators[i].address : i \in 1..Len(creators)}

(* HashMap<&Pubkey, &Creator> collected from a list: the last entry of an
   address wins *)
MapGet(creators, address) ==
    LET idx == {i \in 1..Len(creators) : creators[i].address = address}
    IN  creators[CHOOSE i \in idx : \A j \in idx : j <= i]

(* The orders in which new_creators_map may be iterated; the map is built
   only once the list has passed the length checks *)
IterationOrders(creators) ==
    LET keys == Addresses(creators)
        n == Cardinality(keys)
    IN  IF Len(creators) > MAX_CREATOR_LIMIT \/ Len(creators) = 0 THEN {<<>>}
        ELSE {o \in [1..n -> keys] : \A i, j \in 1..n : o[i] = o[j] => i = j}

(* The checks on one creator's verified flag in the loop over the new
   creators: "ok", or the error returned *)
VerifiedCheck(creator, existing, allow_direct_creator_writes, update_authority_is_signer, update_authority) ==
    IF allow_direct_creator_writes THEN "ok"
    ELSE IF update_authority_is_signer /\ creator.address = update_authority THEN "ok"
    ELSE IF existing.some
    THEN IF creator.address \in Addresses(existing.list)
         THEN IF creator.verified /\ ~MapGet(existing.list, creator.address).verified
              THEN "CannotVerifyAnotherCreator"
              ELSE IF ~creator.verified
                      /\ MapGet(existing.list, creator.address).verified
              THEN "CannotUnverifyAnotherCreator"
              ELSE "ok"
         ELSE IF creator.verified THEN "CannotVerifyAnotherCreator" ELSE "ok"
    ELSE IF creator.verified THEN "CannotVerifyAnotherCreator" ELSE "ok"

(* for (address, creator) in &new_creators_map, in the given order: the
   share total, or the first error *)
RECURSIVE NewCreatorsLoop(_, _, _, _)
NewCreatorsLoop(a, order, i, share_total) ==
    IF i > Len(order) THEN Ok(share_total)
    ELSE
    LET creator == MapGet(a.data.creators.list, order[i])
        sum == checked_add_u8(share_total, creator.share)
    IN  IF ~sum.ok THEN Err("NumericalOverflowError")
        ELSE
        LET v == VerifiedCheck(creator, a.existing_metadata.creators,
                               a.allow_direct_creator_writes,
                               a.update_authority_is_signer, a.update_authority)
        IN  IF v # "ok" THEN Err(v)
            ELSE NewCreatorsLoop(a, order, i + 1, sum.val)

(* "Ensure share total is 100%" *)
ShareTotalCheckAtMost(share_total) ==
    IF share_total > 100 THEN Err("ShareTotalMustBe100") ELSE Ok(0)

ShareTotalCheck(share_total) ==
    IF share_total # 100 THEN Err("ShareTotalMustBe100") ELSE Ok(0)

(* No existing verified creator other than the signing update authority
   may be missing from the new list *)
ExistingCreatorsCheck(a) ==
    IF a.allow_direct_creator_writes THEN Ok(0)
    ELSE IF a.existing_metadata.creators.some
            /\ \E address \in Addresses(a.existing_metadata.creators.list) :
                  /\ ~(a.update_authority_is_signer /\ address = a.update_authority)
                  /\ address \notin Addresses(a.data.creators.list)
                  /\ MapGet(a.existing_metadata.creators.list, address).verified
    THEN Err("CannotUnverifyAnotherCreator")
    ELSE Ok(0)

(* The checks on the new creators without the one on duplicate entries *)
CreatorsValidAllowingDuplicates(a, order) ==
    LET creators == a.data.creators.list
    IN  IF Len(creators) > MAX_CREATOR_LIMIT THEN Err("CreatorsTooLong")
        ELSE IF Len(creators) = 0 THEN Err("CreatorsMustBeAtleastOne")
        ELSE
        LET total == NewCreatorsLoop(a, order, 1, 0)
        IN  IF ~total.ok THEN total
            ELSE IF ~ShareTotalCheck(total.val).ok THEN ShareTotalCheck(total.val)
            ELSE ExistingCreatorsCheck(a)

CreatorsValid(a, order) ==
    LET creators == a.data.creators.list
    IN  IF Len(creators) > MAX_CREATOR_LIMIT THEN Err("CreatorsTooLong")
        ELSE IF Len(creators) = 0 THEN Err("CreatorsMustBeAtleastOne")
        ELSE IF Cardinality(Addresses(creators)) # Len(creators)
        THEN Err("DuplicateCreatorAddress")
        ELSE
        LET total == NewCreatorsLoop(a, order, 1, 0)
        IN  IF ~total.ok THEN total
            ELSE IF ~ShareTotalCheck(total.val).ok THEN ShareTotalCheck(total.val)
            ELSE ExistingCreatorsCheck(a)

AssertDataValid(a, order) ==
    IF a.data.name_len > MAX_NAME_LENGTH THEN Err("NameTooLong")
    ELSE IF a.data.symbol_len > MAX_SYMBOL_LENGTH THEN Err("SymbolTooLong")
    ELSE IF a.data.uri_len > MAX_URI_LENGTH THEN Err("UriTooLong")
    ELSE IF a.data.seller_fee_basis_points > 10000 THEN Err("InvalidBasisPoints")
    ELSE IF a.data.creators.some THEN CreatorsValid(a, order)
    ELSE Ok(0)

----------------------------------------------------------------------------
(* The master edition account (token-metadata): its data holds the key in
   byte 0, the supply in bytes 1..8 and the optional maximum supply in
   bytes 9..17, integers little-endian.  data[k] of the source is
   data[k + 1] here; the bytes after the 18th are not touched. *)

MasterEditionV2Key == 6

(* u64::from_le_bytes *)
RECURSIVE from_le_bytes(_)
from_le_bytes(bytes) ==
    IF bytes = <<>> THEN 0 ELSE Head(bytes) + 256 * from_le_bytes(Tail(bytes))

(* The data of a master edition with the given supply and maximum *)
MasterEditionData(supply, max_supply) ==
    <<MasterEditionV2Key>> \o to_le_bytes(supply)
        \o (IF max_supply.some THEN <<1>> \o to_le_bytes(max_supply.val)
            ELSE <<0>> \o to_le_bytes(0))

(* get_supply_off_master_edition: array_ref![data, 1, 8] *)
GetSupplyOffMasterEdition(data) == from_le_bytes(SubSeq(data, 2, 9))

(* get_max_supply_off_master_edition: data[9] is the tag of the option,
   array_ref![data, 10, 8] the amount *)
GetMaxSupplyOffMasterEdition(data) ==
    IF data[10] = 0 THEN [some |-> FALSE, val |-> 0]
    ELSE [some |-> TRUE, val |-> from_le_bytes(SubSeq(data, 11, 18))]

(* `*supply = new_supply.to_le_bytes()` on mut_array_refs![output, 1, 8, 273] *)
WriteSupply(data, new_supply) ==
    SubSeq(data, 1, 1) \o to_le_bytes(new_supply) \o SubSeq(data, 10, Len(data))

(* The edition to mint next, or the error *)
NewSupplyTakingOverride(edition_override, me_supply) ==
    IF edition_override.some
    THEN IF edition_override.val = 0 THEN Err("EditionOverrideCannotBeZero")
         ELSE Ok(edition_override.val)
    ELSE LET n == checked_add(me_supply, 1)
         IN  IF ~n.ok THEN Err("NumericalOverflowError") ELSE Ok(n.val)

NewSupply(edition_override, me_supply) ==
    IF edition_override.some
    THEN IF edition_override.val = 0 THEN Err("EditionOverrideCannotBeZero")
         ELSE IF edition_override.val > me_supply THEN Ok(edition_override.val)
         ELSE Ok(me_supply)
    ELSE LET n == checked_add(me_supply, 1)
         IN  IF ~n.ok THEN Err("NumericalOverflowError") ELSE Ok(n.val)

(* calculate_supply_change: the result and the data of the master edition
   account after the call *)
CalculateSupplyChange(data, reservation_list_is_none, edition_override, me_supply) ==
    IF reservation_list_is_none
    THEN LET new_supply == NewSupply(edition_override, me_supply)
         IN  IF ~new_supply.ok THEN [res |-> new_supply, data |-> data]
             ELSE
             LET max == GetMaxSupplyOffMasterEdition(data)
             IN  IF max.some /\ new_supply.val > max.val
                 THEN [res |-> Err("MaxEditionsMintedAlready"), data |-> data]
                 ELSE [res |-> Ok(0), data |-> WriteSupply(data, new_supply.val)]
    ELSE [res |-> Ok(0), data |-> data]

----------------------------------------------------------------------------
(* The inputs of a settlement *)

Sizes == {0, 1, 40, 101, 1000, U64Max}

AuctionHouseRates == {0, 200, 10000, 20000}

MetadataRates == {0, 500, 10000, 20000}

ShareLists ==
    { <<>>, <<100>>, <<50, 50>>, <<33, 33, 34>>, <<100, 0>>, <<0, 100>>,
      <<60, 40>>, <<33, 33>>, <<50>>, <<100, 50>>, <<50, 50, 50>>, <<100, 100>>, <<200>> }

(* Vec<Creator>: the i-th creator has wallet i *)
CreatorsOf(shares) ==
    [i \in 1..Len(shares) |-> [address |-> i, share |-> shares[i], verified |-> FALSE]]

(* Option<Vec<Creator>> *)
CreatorOptions ==
    {[some |-> FALSE, list |-> <<>>]}
        \cup {[some |-> TRUE, list |-> CreatorsOf(sh)] : sh \in ShareLists}

(* The token account passed for wallet w: its associated account, existing
   ("ok") or not yet created ("empty"), or somebody else's ("foreign") *)
PassedTokenAccount(tok, w) ==
    CASE tok = "ok" -> TokenInfo(AtaAddress(w, TreasuryMint), w, TreasuryMint)
      [] tok = "empty" -> WalletInfo(AtaAddress(w, TreasuryMint))
      [] OTHER -> TokenInfo(AtaAddress(StrangerKey, TreasuryMint), StrangerKey,
                            TreasuryMint)

(* remaining_accounts as the caller lays them out: per creator its wallet
   and, on the token path, its token account *)
ExactAccounts(creators, is_native, tok) ==
    IF is_native
    THEN [i \in 1..Len(creators) |-> WalletInfo(creators[i].address)]
    ELSE [j \in 1..(2 * Len(creators)) |->
            IF j % 2 = 1
            THEN WalletInfo(creators[(j + 1) \div 2].address)
            ELSE PassedTokenAccount(tok, creators[j \div 2].address)]

ShapedAccounts(creators, is_native, tok, shape) ==
    LET exact == ExactAccounts(creators, is_native, tok)
    IN  CASE shape = "short" /\ Len(exact) > 0 -> SubSeq(exact, 1, Len(exact) - 1)
          [] shape = "wrongkey" /\ Len(exact) > 0 ->
                [exact EXCEPT ![1] = WalletInfo(StrangerKey)]
          [] OTHER -> exact

AccountLists(creators, is_native) ==
    {ShapedAccounts(creators, is_native, tok, shape) :
        tok \in (IF is_native THEN {"ok"} ELSE {"ok", "empty", "foreign"}),
        shape \in {"exact", "short", "wrongkey"}}

InitialBal(i) ==
    [k \in AllKeys |->
        IF k = EscrowKey /\ i.kind = "settle" THEN i.escrow
        ELSE IF k = EscrowKey /\ i.kind \in {"withdrawal", "deposit"} THEN i.lamports
        ELSE 0]

NoRoyalty ==
    [res |-> NoResult, total_fee |-> 0, remaining_size |-> 0, remaining_fee |-> 0,
     fees |-> <<>>, events |-> <<>>]

(* The inputs of assert_valid_trade_state *)
AuctionHouseKey == 7

AssetMint == 8

TradeStateInputs ==
    {[kind |-> "trade_state", wallet |-> w, auction_house |-> AuctionHouseKey,
      treasury_mint |-> TreasuryMint, mint |-> AssetMint, token_holder |-> th,
      buyer_price |-> price, token_size |-> 1, trade_state |-> ts, ts_bump |-> b] :
        w \in {1, 2}, th \in {1, 2}, price \in {0, 1, 300},
        ts \in 0..(AddressSpace - 1), b \in 0..MaxBumpSeed}

(* The inputs of assert_derivation, of either program *)
DerivationPaths ==
    {<<PrefixBytes>>, <<PrefixBytes, KeyBytes(1)>>, <<PrefixBytes, KeyBytes(2)>>,
     <<PrefixBytes, KeyBytes(TokenMetadataProgram), KeyBytes(AssetMint)>>,
     <<PrefixBytes, KeyBytes(1), to_le_bytes(300)>>}

DerivationInputs ==
    {[kind |-> "derivation", program_id |-> p, path |-> path, account |-> a] :
        p \in {AuctionHouseProgram, TokenMetadataProgram}, path \in DerivationPaths,
        a \in 0..(AddressSpace - 1)}

(* The inputs of verify_withdrawal: the account's lamports, the rent
   minimum of its data length, the amount *)
Lamports == {0, 1, 5, 10, U64Max}

WithdrawalInputs ==
    {[kind |-> "withdrawal", lamports |-> l, rent_minimum |-> r, amount |-> a] :
        l \in Lamports, r \in Lamports, a \in Lamports}

(* The inputs of verify_deposit *)
DepositInputs ==
    {[kind |-> "deposit", lamports |-> l, rent_minimum |-> r, amount |-> a] :
        l \in Lamports \cup {U64Max - 5}, r \in Lamports, a \in Lamports \cup {6}}

(* The orders of one wallet: the trade states it can post, and the
   arguments a caller can pass to a sale or a cancellation *)
OrderPrices == {300}

TokenHolders == {1, 2}

OrderInputs == {[kind |-> "orders", wallet |-> 1]}

TradeStateArgs(wallet, price, th, ts, b) ==
    [kind |-> "trade_state", wallet |-> wallet, auction_house |-> AuctionHouseKey,
     treasury_mint |-> TreasuryMint, mint |-> AssetMint, token_holder |-> th,
     buyer_price |-> price, token_size |-> 1, trade_state |-> ts, ts_bump |-> b]

(* The address a trade state is created at: the public derivation, or the
   private one for a token holder *)
TradeStateAddress(wallet, price, public, th) ==
    FindProgramAddress(
        IF public
        THEN PublicTradeStateSeeds(wallet, AuctionHouseKey, TreasuryMint, AssetMint,
                                   price, 1)
        ELSE TradeStateSeeds(wallet, AuctionHouseKey, th, TreasuryMint,
                             AssetMint, price, 1),
        AuctionHouseProgram)

(* The requests a caller can make for a wallet's orders, and what
   assert_valid_trade_state returns for each *)
SaleRequests ==
    {TradeStateArgs(i.wallet, price, th, ts, b) :
        i \in OrderInputs, price \in OrderPrices, th \in TokenHolders,
        ts \in 0..(AddressSpace - 1), b \in 0..MaxBumpSeed}

ValidatedTradeStates == [t \in SaleRequests |-> AssertValidTradeState(t)]

NoAttempt == [op |-> "none", ok |-> FALSE, seq |-> 0, price |-> 0, th |-> 0, ts |-> 0]

NoMarket == [open |-> {}, closed |-> {}, last |-> NoAttempt]

(* The inputs of assert_valid_auctioneer_and_scope and assert_scopes_eq *)
AuctioneerKey == 2

AuctioneerAuthorityKey == 3

(* [bool; MAX_NUM_SCOPES] with exactly the scopes of set granted *)
ScopesArray(set) == [sc \in AuthorityScope |-> sc \in set]

ScopeBitmaps == {ScopesArray(set) : set \in SUBSET {0, 3, 6}} \cup {ScopesArray(AuthorityScope)}

AuctioneerInputs ==
    {[kind |-> "auctioneer",
      auction_house |-> [key |-> AuctionHouseKey, auctioneer_address |-> tagged,
                         scopes |-> bits],
      auctioneer_authority |-> AuctioneerAuthorityKey,
      auctioneer_pda |-> [key |-> AuctioneerKey, auctioneer_authority |-> auth,
                          auction_house |-> back],
      scope |-> sc] :
        tagged \in {AuctioneerKey, StrangerKey},
        auth \in {AuctioneerAuthorityKey, StrangerKey},
        back \in {AuctionHouseKey, StrangerKey},
        bits \in ScopeBitmaps, sc \in AuthorityScope}

MaxScopes == 3

RECURSIVE ScopeLists(_)
ScopeLists(n) ==
    IF n = 0 THEN {<<>>}
    ELSE ScopeLists(n - 1)
            \cup {Append(l, sc) : l \in ScopeLists(n - 1), sc \in {0, 3, 6}}

ScopesInputs ==
    {[kind |-> "scopes", scopes |-> l, scopes_array |-> bits] :
        l \in ScopeLists(MaxScopes), bits \in ScopeBitmaps}

(* The inputs of assert_valid_delegation: the payer's wallet 1, the
   receiver's wallet 2, the auction house as transfer authority *)
SrcWalletKey == 1

DstWalletKey == 2

PaySizes == {0, 6}

DelegatedAmounts == {0, 5, 6, 7}

SrcAccounts(wallet, mint) ==
    {SplAccountInfo(acc[1], program, TRUE, acc[2], acc[3], dg, amount) :
        acc \in {<<AtaAddress(wallet.key, mint), wallet.key, mint>>,
                 <<AtaAddress(StrangerKey, mint), StrangerKey, mint>>,
                 <<AtaAddress(wallet.key, mint), wallet.key, AssetMint>>},
        program \in {"token", "other"},
        dg \in {NoDelegate, Delegate(AuctionHouseKey), Delegate(StrangerKey)},
        amount \in DelegatedAmounts}
      \cup {SplAccountInfo(AtaAddress(wallet.key, mint), "token", FALSE, 0, 0,
                           NoDelegate, 0),
            wallet, SystemAccountInfo(StrangerKey, TRUE)}

DstAccounts(wallet, mint) ==
    {SplAccountInfo(AtaAddress(wallet.key, mint), "token", TRUE, wallet.key, mint,
                    NoDelegate, 0),
     SplAccountInfo(AtaAddress(StrangerKey, mint), "token", TRUE, StrangerKey, mint,
                    NoDelegate, 0),
     wallet, SystemAccountInfo(StrangerKey, FALSE)}

DelegationInputsOf(src_wallet, dst_wallet) ==
    {[kind |-> "delegation", src_account |-> src, dst_account |-> dst,
      src_wallet |-> src_wallet, dst_wallet |-> dst_wallet,
      transfer_authority |-> AuctionHouseKey, mint |-> mint, paysize |-> paysize] :
        mint \in {TreasuryMint, NativeMint}, paysize \in PaySizes,
        src \in UNION {SrcAccounts(src_wallet, mn) : mn \in {TreasuryMint, NativeMint}},
        dst \in UNION {DstAccounts(dst_wallet, mn) : mn \in {TreasuryMint, NativeMint}}}

DelegationInputs ==
    UNION {DelegationInputsOf(SystemAccountInfo(SrcWalletKey, signer),
                              SystemAccountInfo(DstWalletKey, FALSE)) :
              signer \in BOOLEAN}

(* The inputs of assert_data_valid *)
UpdateAuthorityKey == 9

Creator(address, share, verified) ==
    [address |-> address, share |-> share, verified |-> verified]

NewCreatorLists ==
    { <<>>,
      <<Creator(1, 100, FALSE)>>, <<Creator(1, 100, TRUE)>>,
      <<Creator(UpdateAuthorityKey, 100, TRUE)>>,
      <<Creator(1, 50, FALSE), Creator(2, 50, FALSE)>>,
      <<Creator(1, 50, TRUE), Creator(2, 50, TRUE)>>,
      <<Creator(1, 50, FALSE), Creator(1, 50, FALSE)>>,
      <<Creator(1, 50, FALSE), Creator(1, 100, FALSE)>>,
      <<Creator(1, 33, FALSE), Creator(2, 33, TRUE), Creator(3, 34, FALSE)>>,
      <<Creator(1, 33, FALSE), Creator(2, 33, FALSE)>>,
      <<Creator(1, 50, FALSE)>>,
      <<Creator(1, 0, FALSE)>>,
      <<Creator(1, 100, FALSE), Creator(2, 50, TRUE)>>,
      <<Creator(1, 200, FALSE), Creator(2, 100, TRUE)>>,
      <<Creator(1, 200, FALSE), Creator(2, 156, FALSE)>>,
      <<Creator(1, 25, FALSE), Creator(2, 25, FALSE), Creator(3, 25, FALSE),
        Creator(StrangerKey, 25, FALSE)>>,
      <<Creator(1, 20, FALSE), Creator(2, 20, FALSE), Creator(3, 20, FALSE),
        Creator(StrangerKey, 20, FALSE), Creator(UpdateAuthorityKey, 10, FALSE),
        Creator(AssetMint, 10, FALSE)>> }

ExistingCreatorLists ==
    { <<Creator(1, 100, TRUE)>>,
      <<Creator(1, 50, FALSE), Creator(2, 50, TRUE)>>,
      <<Creator(UpdateAuthorityKey, 50, TRUE), Creator(3, 50, FALSE)>> }

OptionOf(lists) ==
    {[some |-> FALSE, list |-> <<>>]} \cup {[some |-> TRUE, list |-> l] : l \in lists}

StringLengths ==
    { <<MAX_NAME_LENGTH, MAX_SYMBOL_LENGTH, MAX_URI_LENGTH>>,
      <<MAX_NAME_LENGTH + 1, MAX_SYMBOL_LENGTH, MAX_URI_LENGTH>>,
      <<0, MAX_SYMBOL_LENGTH + 1, MAX_URI_LENGTH>>,
      <<0, 0, MAX_URI_LENGTH + 1>> }

MetadataInputs ==
    {[kind |-> "metadata",
      data |-> [name_len |-> len[1], symbol_len |-> len[2], uri_len |-> len[3],
                seller_fee_basis_points |-> bps, creators |-> cr],
      update_authority |-> ua,
      existing_metadata |-> [creators |-> ex],
      allow_direct_creator_writes |-> direct,
      update_authority_is_signer |-> signer] :
        len \in StringLengths, bps \in {0, 10000, 10001},
        cr \in OptionOf(NewCreatorLists), ua \in {1, UpdateAuthorityKey},
        ex \in OptionOf(ExistingCreatorLists), direct \in BOOLEAN,
        signer \in BOOLEAN}

SettleInit ==
    \E size \in Sizes, ah \in AuctionHouseRates, md \in MetadataRates,
       cr \in CreatorOptions, native \in BOOLEAN :
      \E escrow \in {size, U64Max}, accs \in AccountLists(cr.list, native) :
         inp = [kind |-> "settle", size |-> size, ah_bps |-> ah,
                escrow |-> escrow,
                metadata |-> [seller_fee_basis_points |-> md, creators |-> cr],
                is_native |-> native, accounts |-> accs]

(* The inputs of calculate_supply_change: the master edition as stored
   before the first call, and the overrides a call may carry *)
None == [some |-> FALSE, val |-> 0]

Some(v) == [some |-> TRUE, val |-> v]

MaxCalls == 3

InitialSupplies == {0, 1, 5, U64Max - 1, U64Max}

MaxSupplies == {None, Some(0), Some(3), Some(6), Some(U64Max)}

EditionOverrides == {None, Some(0), Some(2), Some(4), Some(6), Some(7), Some(U64Max)}

SupplyInputs ==
    {[kind |-> "supply", supply |-> s, max_supply |-> mx] :
        s \in InitialSupplies, mx \in MaxSupplies}

(* The master edition account: its data, the calls made on it so far and
   the arguments of the last call *)
NoCall == [reservation_list_is_none |-> TRUE, edition_override |-> None, me_supply |-> 0]

InitialMasterEdition(i) ==
    [data |-> IF i.kind = "supply" THEN MasterEditionData(i.supply, i.max_supply)
              ELSE <<>>,
     calls |-> 0, call |-> NoCall]

(* The inputs of get_fee_payer *)
FeeAccountKey == 9

AuctionHouseSeeds == <<PrefixBytes, KeyBytes(AuctionHouseKey), <<MaxBumpSeed>>>>

FeePayerInputs ==
    {[kind |-> "fee_payer",
      authority |-> [key |-> AuctioneerAuthorityKey, is_signer |-> a],
      auction_house |-> [requires_sign_off |-> r],
      wallet |-> [key |-> w, is_signer |-> ws],
      auction_house_fee_account |-> FeeAccountKey,
      auction_house_seeds |-> AuctionHouseSeeds] :
        a \in BOOLEAN, r \in BOOLEAN, w \in {1, 2}, ws \in BOOLEAN}

(* The inputs of the discriminator decoders: the discriminators of the
   program's instructions, each also cut short by a byte, extended by a
   byte and with its last byte changed, and the empty slice *)
InstructionSighashes ==
    { <<169, 84, 218, 35, 42, 206, 16, 171>>, <<102, 6, 61, 18, 1, 218, 235, 234>>,
      <<221, 239, 99, 240, 86, 46, 213, 126>>, <<17, 106, 133, 46, 229, 48, 45, 208>>,
      <<51, 230, 133, 164, 1, 127, 131, 173>>, <<251, 60, 142, 195, 121, 203, 26, 183>>,
      <<37, 74, 217, 157, 79, 49, 35, 6>>, <<68, 125, 32, 65, 251, 43, 35, 53>>,
      <<232, 219, 223, 41, 219, 236, 220, 190>>, <<197, 97, 152, 196, 115, 204, 64, 215>> }

Sighashes ==
    InstructionSighashes
        \cup {SubSeq(d, 1, 7) : d \in InstructionSighashes}
        \cup {Append(d, 0) : d \in InstructionSighashes}
        \cup {[d EXCEPT ![8] = (@ + 1) % 256] : d \in InstructionSighashes}
        \cup {<<>>}

SighashInputs ==
    {[kind |-> k, sighash |-> s, expected_sighash |-> s] :
        k \in {"bid", "listing", "purchase", "cancel"}, s \in Sighashes}
      \cup {[kind |-> "instruction_equal", sighash |-> s, expected_sighash |-> e] :
                s \in Sighashes, e \in InstructionSighashes}

Init ==
    /\ \/ SettleInit
       \/ inp \in SighashInputs
       \/ inp \in FeePayerInputs
       \/ inp \in SupplyInputs
       \/ inp \in TradeStateInputs
       \/ inp \in DerivationInputs
       \/ inp \in WithdrawalInputs
       \/ inp \in DepositInputs
       \/ inp \in OrderInputs
       \/ inp \in AuctioneerInputs
       \/ inp \in DelegationInputs
       \/ inp \in ScopesInputs
       \/ inp \in MetadataInputs
    /\ pc = "start"
    /\ bal = InitialBal(inp)
    /\ issued = <<>>
    /\ created = {}
    /\ feeRes = NoResult
    /\ royalty = NoRoyalty
    /\ res = NoResult
    /\ market = NoMarket
    /\ master_edition = InitialMasterEdition(inp)

----------------------------------------------------------------------------
(* A settlement: commission, royalties, remainder.  A failed call aborts
   the transaction, which undoes its balance changes; issued and created
   keep what the program had asked for up to the failure. *)

pay_auction_house_fees ==
    /\ inp.kind = "settle"
    /\ pc = "start"
    /\ LET out == PayAuctionHouseFees(inp.ah_bps, inp.size, inp.is_native, bal)
       IN  /\ feeRes' = out.res
           /\ issued' = issued \o out.issued
           /\ bal' = IF out.res.ok THEN out.bal ELSE InitialBal(inp)
           /\ pc' = IF out.res.ok THEN "fees_paid" ELSE "failed"
    /\ UNCHANGED <<master_edition, market, inp, created, royalty, res>>

pay_creator_fees ==
    /\ inp.kind = "settle"
    /\ pc = "fees_paid"
    /\ LET out == PayCreatorFees(inp.metadata, inp.accounts, inp.size,
                                 inp.is_native, bal)
       IN  /\ royalty' = [res |-> out.res, total_fee |-> out.total_fee,
                          remaining_size |-> out.remaining_size,
                          remaining_fee |-> out.remaining_fee, fees |-> out.fees,
                          events |-> out.events]
           /\ issued' = issued \o out.issued
           /\ created' = created \cup out.created
           /\ bal' = IF out.res.ok THEN out.bal ELSE InitialBal(inp)
           /\ pc' = IF out.res.ok THEN "royalties_paid" ELSE "failed"
    /\ UNCHANGED <<master_edition, market, inp, feeRes, res>>

(* The remainder returned by pay_creator_fees goes to the seller *)
pay_seller ==
    /\ inp.kind = "settle"
    /\ pc = "royalties_paid"
    /\ LET ix == TransferIx(IF inp.is_native THEN "system" ELSE "token",
                            EscrowKey, SellerKey, royalty.res.val)
           t  == Transfer(bal, EscrowKey, SellerKey, royalty.res.val)
       IN  /\ issued' = Append(issued, ix)
           /\ res' = IF t.ok THEN Ok(royalty.res.val) ELSE Err(t.err)
           /\ bal' = IF t.ok THEN t.bal ELSE InitialBal(inp)
           /\ pc' = IF t.ok THEN "done" ELSE "failed"
    /\ UNCHANGED <<master_edition, market, inp, created, feeRes, royalty>>

(* The helpers, each called once on the inputs drawn *)

assert_valid_trade_state ==
    /\ inp.kind = "trade_state"
    /\ pc = "start"
    /\ res' = AssertValidTradeState(inp)
    /\ pc' = IF res'.ok THEN "done" ELSE "failed"
    /\ UNCHANGED <<master_edition, market, inp, bal, issued, created, feeRes, royalty>>

assert_derivation ==
    /\ inp.kind = "derivation"
    /\ pc = "start"
    /\ res' = IF inp.program_id = AuctionHouseProgram
              THEN AssertDerivation(inp.program_id, inp.account, inp.path)
              ELSE MetadataAssertDerivation(inp.program_id, inp.account, inp.path)
    /\ pc' = IF res'.ok THEN "done" ELSE "failed"
    /\ UNCHANGED <<master_edition, market, inp, bal, issued, created, feeRes, royalty>>

verify_withdrawal ==
    /\ inp.kind = "withdrawal"
    /\ pc = "start"
    /\ res' = VerifyWithdrawal(bal[EscrowKey], inp.rent_minimum, inp.amount)
    /\ pc' = IF res'.ok THEN "done" ELSE "failed"
    /\ UNCHANGED <<master_edition, market, inp, bal, issued, created, feeRes, royalty>>

verify_deposit ==
    /\ inp.kind = "deposit"
    /\ pc = "start"
    /\ res' = VerifyDeposit(bal[EscrowKey], inp.rent_minimum, inp.amount)
    /\ pc' = IF res'.ok THEN "done" ELSE "failed"
    /\ UNCHANGED <<master_edition, market, inp, bal, issued, created, feeRes, royalty>>

(* The life of a trade state.  An order is posted by creating the account
   at its derived address; a sale or a cancellation authenticates the
   account passed with assert_valid_trade_state, requires it to exist in
   open form and closes it.  A request that fails leaves the ledger as it
   was; market.last keeps the request and its outcome. *)

post_order ==
    /\ inp.kind = "orders"
    /\ \E price \in OrderPrices, public \in BOOLEAN, th \in TokenHolders :
          LET d == TradeStateAddress(inp.wallet, price, public, th)
          IN  /\ d.found
              /\ d.key \notin market.open
              /\ market' = [market EXCEPT !.open = @ \cup {d.key},
                                           !.closed = @ \ {d.key}]
    /\ UNCHANGED <<master_edition, inp, pc, bal, issued, created, feeRes, royalty, res>>

CloseTradeState(op, price, th, ts, b) ==
    LET v  == ValidatedTradeStates[TradeStateArgs(inp.wallet, price, th, ts, b)]
        ok == v.ok /\ ts \in market.open
    IN  market' = [open |-> IF ok THEN market.open \ {ts} ELSE market.open,
                   closed |-> IF ok THEN market.closed \cup {ts} ELSE market.closed,
                   last |-> [op |-> op, ok |-> ok, seq |-> 1 - market.last.seq,
                             price |-> price, th |-> th, ts |-> ts]]

execute_sale ==
    /\ inp.kind = "orders"
    /\ \E price \in OrderPrices, th \in TokenHolders,
          ts \in 0..(AddressSpace - 1), b \in 0..MaxBumpSeed :
          CloseTradeState("execute_sale", price, th, ts, b)
    /\ UNCHANGED <<master_edition, inp, pc, bal, issued, created, feeRes, royalty, res>>

cancel ==
    /\ inp.kind = "orders"
    /\ \E price \in OrderPrices, th \in TokenHolders,
          ts \in 0..(AddressSpace - 1), b \in 0..MaxBumpSeed :
          CloseTradeState("cancel", price, th, ts, b)
    /\ UNCHANGED <<master_edition, inp, pc, bal, issued, created, feeRes, royalty, res>>

assert_valid_auctioneer_and_scope ==
    /\ inp.kind = "auctioneer"
    /\ pc = "start"
    /\ res' = AssertValidAuctioneerAndScope(inp.auction_house, inp.auctioneer_authority,
                                            inp.auctioneer_pda, inp.scope)
    /\ pc' = IF res'.ok THEN "done" ELSE "failed"
    /\ UNCHANGED <<master_edition, market, inp, bal, issued, created, feeRes, royalty>>

assert_valid_delegation ==
    /\ inp.kind = "delegation"
    /\ pc = "start"
    /\ res' = AssertValidDelegation(inp)
    /\ pc' = IF res'.ok THEN "done" ELSE "failed"
    /\ UNCHANGED <<master_edition, market, inp, bal, issued, created, feeRes, royalty>>

assert_scopes_eq ==
    /\ inp.kind = "scopes"
    /\ pc = "start"
    /\ res' = AssertScopesEq(inp.scopes, inp.scopes_array)
    /\ pc' = IF res'.ok THEN "done" ELSE "failed"
    /\ UNCHANGED <<master_edition, market, inp, bal, issued, created, feeRes, royalty>>

(* One call of calculate_supply_change on the master edition, with the
   supply it holds; a failed call changes nothing, and the next call finds
   the account as the last successful one left it *)
calculate_supply_change ==
    /\ inp.kind = "supply"
    /\ master_edition.calls < MaxCalls
    /\ \E reservation_list_is_none \in BOOLEAN, edition_override \in EditionOverrides :
          LET me_supply == GetSupplyOffMasterEdition(master_edition.data)
              out == CalculateSupplyChange(master_edition.data, reservation_list_is_none,
                                           edition_override, me_supply)
          IN  /\ res' = out.res
              /\ master_edition' =
                    [data |-> out.data, calls |-> master_edition.calls + 1,
                     call |-> [reservation_list_is_none |-> reservation_list_is_none,
                               edition_override |-> edition_override,
                               me_supply |-> me_supply]]
              /\ pc' = IF out.res.ok THEN "done" ELSE "failed"
    /\ UNCHANGED <<market, inp, bal, issued, created, feeRes, royalty>>

get_fee_payer ==
    /\ inp.kind = "fee_payer"
    /\ pc = "start"
    /\ res' = GetFeePayer(inp.authority, inp.auction_house, inp.wallet,
                          inp.auction_house_fee_account, inp.auction_house_seeds)
    /\ pc' = IF res'.ok THEN "done" ELSE "failed"
    /\ UNCHANGED <<master_edition, market, inp, bal, issued, created, feeRes, royalty>>

(* The discriminator decoders *)
assert_program_bid_instruction ==
    /\ inp.kind = "bid"
    /\ pc = "start"
    /\ res' = AssertProgramBidInstruction(inp.sighash)
    /\ pc' = IF res'.ok THEN "done" ELSE "failed"
    /\ UNCHANGED <<master_edition, market, inp, bal, issued, created, feeRes, royalty>>

assert_program_listing_instruction ==
    /\ inp.kind = "listing"
    /\ pc = "start"
    /\ res' = AssertProgramListingInstruction(inp.sighash)
    /\ pc' = IF res'.ok THEN "done" ELSE "failed"
    /\ UNCHANGED <<master_edition, market, inp, bal, issued, created, feeRes, royalty>>

assert_program_purchase_instruction ==
    /\ inp.kind = "purchase"
    /\ pc = "start"
    /\ res' = AssertProgramPurchaseInstruction(inp.sighash)
    /\ pc' = IF res'.ok THEN "done" ELSE "failed"
    /\ UNCHANGED <<master_edition, market, inp, bal, issued, created, feeRes, royalty>>

assert_program_cancel_instruction ==
    /\ inp.kind = "cancel"
    /\ pc = "start"
    /\ res' = AssertProgramCancelInstruction(inp.sighash)
    /\ pc' = IF res'.ok THEN "done" ELSE "failed"
    /\ UNCHANGED <<master_edition, market, inp, bal, issued, created, feeRes, royalty>>

assert_program_instruction_equal ==
    /\ inp.kind = "instruction_equal"
    /\ pc = "start"
    /\ res' = AssertProgramInstructionEqual(inp.sighash, inp.expected_sighash)
    /\ pc' = IF res'.ok THEN "done" ELSE "failed"
    /\ UNCHANGED <<master_edition, market, inp, bal, issued, created, feeRes, royalty>>

(* assert_data_valid; the HashMap of the new creators is walked in an
   order the caller does not control *)
assert_data_valid ==
    /\ inp.kind = "metadata"
    /\ pc = "start"
    /\ \E order \in IterationOrders(inp.data.creators.list) :
          res' = AssertDataValid(inp, order)
    /\ pc' = IF res'.ok THEN "done" ELSE "failed"
    /\ UNCHANGED <<master_edition, market, inp, bal, issued, created, feeRes, royalty>>

Next ==
    \/ pay_auction_house_fees
    \/ pay_creator_fees
    \/ pay_seller
    \/ assert_valid_trade_state
    \/ assert_derivation
    \/ verify_withdrawal
    \/ verify_deposit
    \/ assert_data_valid
    \/ assert_valid_auctioneer_and_scope
    \/ assert_valid_delegation
    \/ assert_scopes_eq
    \/ post_order
    \/ execute_sale
    \/ cancel
    \/ assert_program_bid_instruction
    \/ assert_program_listing_instruction
    \/ assert_program_purchase_instruction
    \/ assert_program_cancel_instruction
    \/ assert_program_instruction_equal
    \/ get_fee_payer
    \/ calculate_supply_change

Spec == Init /\ [][Next]_vars

----------------------------------------------------------------------------
(* Arithmetic the properties are stated with: exact, unbounded *)

RECURSIVE SumSeq(_)
SumSeq(q) == IF q = <<>> THEN 0 ELSE Head(q) + SumSeq(Tail(q))

ShareSum(creators) == SumSeq([i \in 1..Len(creators) |-> creators[i].share])

ExactFee(bps, size) == (bps * size) \div BasisPointsDenominator

ExactShare(share, total) == (share * total) \div PercentDenominator

(* The transfers issued to royalty recipients *)
ToRecipients(log) ==
    SelectSeq(log, LAMBDA ix : ix.to \notin {TreasuryKey, SellerKey})

Amounts(log) == [i \in 1..Len(log) |-> log[i].amount]

PaidToRecipients == SumSeq(Amounts(ToRecipients(issued)))

HeldByRecipients ==
    SumSeq([i \in 1..3 |-> bal[i] + bal[AtaAddress(i, TreasuryMint)]])
        + bal[StrangerKey] + bal[AtaAddress(StrangerKey, TreasuryMint)]

Settling == inp.kind = "settle"

RoyaltiesPaid == Settling /\ royalty.res.ok

FeesPaid == Settling /\ feeRes.ok

ValidShares ==
    /\ inp.metadata.creators.some
    /\ ShareSum(inp.metadata.creators.list) = 100

----------------------------------------------------------------------------
(* C1: for every size, every royalty rate in [0, 10000] and every recipient
   list whose shares sum to exactly 100, a successful pay_creator_fees has
   total_royalty = floor(size * bps / 10000), every recipient_fee =
   floor(share * total_royalty / 100), total_royalty = sum of the
   recipient fees + remaining_fee, and size = total_royalty +
   remaining_size. *)
C1_RoyaltyConservation ==
    (/\ RoyaltiesPaid
     /\ inp.metadata.seller_fee_basis_points <= 10000
     /\ ValidShares)
    => /\ royalty.total_fee = ExactFee(inp.metadata.seller_fee_basis_points, inp.size)
       /\ Len(royalty.fees) = Len(inp.metadata.creators.list)
       /\ \A i \in 1..Len(royalty.fees) :
             royalty.fees[i] =
                ExactShare(inp.metadata.creators.list[i].share, royalty.total_fee)
       /\ royalty.total_fee = SumSeq(royalty.fees) + royalty.remaining_fee
       /\ inp.size = royalty.total_fee + royalty.remaining_size

(* A split of 101 units at 100% among shares 33/33/34 went through,
   leaving a remaining_fee of 1 *)
C1_Witness ==
    /\ RoyaltiesPaid
    /\ ValidShares
    /\ inp.size = 101
    /\ inp.metadata.seller_fee_basis_points = 10000
    /\ royalty.fees = <<33, 33, 34>>
    /\ royalty.remaining_fee = 1
    /\ royalty.remaining_size = 0

(* C2: the value pay_creator_fees returns is remaining_size +
   remaining_fee, and the amounts transferred to the recipients plus the
   returned value are exactly size: no rounding remainder is dropped. *)
C2_DustReturnedToSeller ==
    RoyaltiesPaid
    => /\ royalty.res.val = royalty.remaining_size + royalty.remaining_fee
       /\ PaidToRecipients + royalty.res.val = inp.size
       /\ (pc = "royalties_paid" => HeldByRecipients = PaidToRecipients)

(* size 101, royalty 10000 bps, shares 33/33/34: 33, 33 and 34 were
   transferred and 1 is returned *)
C2_Witness ==
    /\ RoyaltiesPaid
    /\ pc = "royalties_paid"
    /\ inp.size = 101
    /\ inp.metadata.seller_fee_basis_points = 10000
    /\ Amounts(ToRecipients(issued)) = <<33, 33, 34>>
    /\ royalty.res.val = 1

(* C3: for every size and every commission rate in [0, 10000] the amount
   pay_auction_house_fees transfers from the escrow to the treasury and
   returns is floor(size * bps / 10000), and it is at most size. *)
C3_Commission ==
    (FeesPaid /\ inp.ah_bps <= 10000)
    => /\ feeRes.val = ExactFee(inp.ah_bps, inp.size)
       /\ feeRes.val <= inp.size
       /\ issued[1] = TransferIx(IF inp.is_native THEN "system" ELSE "token",
                                 EscrowKey, TreasuryKey, feeRes.val)
       /\ (pc = "fees_paid" =>
             /\ bal[TreasuryKey] = feeRes.val
             /\ bal[EscrowKey] = inp.escrow - feeRes.val)

(* A commission of 200 bps on 1000 units, 20, reached the treasury *)
C3_Witness ==
    /\ FeesPaid
    /\ pc = "fees_paid"
    /\ inp.size = 1000
    /\ inp.ah_bps = 200
    /\ feeRes.val = 20
    /\ bal[TreasuryKey] = 20

(* C4: for every size and every 16-bit rate the commission and the
   royalty computations produce the exact mathematical result or fail with
   NumericalOverflow: no wrapped or truncated value is transferred or
   returned. *)
C4_NoWrappedValue ==
    /\ FeesPaid => feeRes.val = ExactFee(inp.ah_bps, inp.size)
    /\ \A i \in 1..Len(issued) :
          issued[i].to = TreasuryKey =>
             issued[i].amount = ExactFee(inp.ah_bps, inp.size)
    /\ RoyaltiesPaid =>
          /\ royalty.total_fee =
                ExactFee(inp.metadata.seller_fee_basis_points, inp.size)
          /\ \A i \in 1..Len(royalty.fees) :
                royalty.fees[i] =
                   ExactShare(inp.metadata.creators.list[i].share,
                              ExactFee(inp.metadata.seller_fee_basis_points, inp.size))

(* C5 as claimed: a recipient list whose shares do not sum to exactly 100
   is rejected by the royalty distribution, before any transfer to a
   recipient is issued. *)
C5_RejectedByRoyaltyDistribution ==
    (/\ Settling
     /\ royalty.res.err # "not_called"
     /\ inp.metadata.creators.some
     /\ ShareSum(inp.metadata.creators.list) # 100)
    => /\ ~royalty.res.ok
       /\ ToRecipients(issued) = <<>>

(* C5: a recipient list whose shares do not sum to exactly 100 is rejected
   by assert_data_valid, the validation of the asset record, and no
   transfer has been issued when it is rejected. *)
C5_RejectedByDataValidation ==
    (/\ inp.kind = "metadata"
     /\ pc # "start"
     /\ inp.data.creators.some
     /\ ShareSum(inp.data.creators.list) # 100)
    => /\ ~res.ok
       /\ pc = "failed"
       /\ issued = <<>>

(* A list of two shares of 33 got as far as the share total and was
   rejected there *)
C5_Witness ==
    /\ inp.kind = "metadata"
    /\ pc = "failed"
    /\ ShareSum(inp.data.creators.list) = 66
    /\ res = Err("ShareTotalMustBe100")
    /\ issued = <<>>

(* C6: after a successful settlement of an escrow holding exactly size
   units the escrow balance is zero: the commission in the treasury, the
   royalties with the recipients and the remainder with the seller add up
   to exactly size. *)
C6_EscrowDrained ==
    (Settling /\ pc = "done" /\ inp.escrow = inp.size)
    => /\ bal[EscrowKey] = 0
       /\ bal[TreasuryKey] = feeRes.val
       /\ bal[SellerKey] = royalty.res.val
       /\ HeldByRecipients = PaidToRecipients
       /\ bal[TreasuryKey] + HeldByRecipients + bal[SellerKey] = inp.size

(* A settlement of exactly the escrowed size that paid royalties and
   left a rounding remainder went through *)
C6_Witness ==
    /\ Settling
    /\ pc = "done"
    /\ inp.escrow = inp.size
    /\ inp.size = 101
    /\ PaidToRecipients = 100
    /\ bal[SellerKey] = 1
    /\ bal[EscrowKey] = 0

----------------------------------------------------------------------------
(* The two canonical derivations of the trade state of the inputs *)

PrivateDerivation ==
    FindProgramAddress(
        TradeStateSeeds(inp.wallet, inp.auction_house, inp.token_holder,
                        inp.treasury_mint, inp.mint, inp.buyer_price, inp.token_size),
        AuctionHouseProgram)

PublicDerivation ==
    FindProgramAddress(
        PublicTradeStateSeeds(inp.wallet, inp.auction_house, inp.treasury_mint,
                              inp.mint, inp.buyer_price, inp.token_size),
        AuctionHouseProgram)

MatchesPrivate == PrivateDerivation.found /\ inp.trade_state = PrivateDerivation.key

MatchesPublic == PublicDerivation.found /\ inp.trade_state = PublicDerivation.key

TradeStateChecked == inp.kind = "trade_state" /\ pc # "start"

(* b is the canonical bump of seeds: the highest bump seed that gives a
   valid address, and that address is key *)
IsCanonicalBump(b, key, seeds, program_id) ==
    /\ b \in 0..MaxBumpSeed
    /\ CreateProgramAddress(seeds, b, program_id) = Ok(key)
    /\ \A higher \in (b + 1)..MaxBumpSeed :
          ~CreateProgramAddress(seeds, higher, program_id).ok

(* C7: assert_valid_trade_state returns Ok(b) only if the candidate
   address is exactly one of the private and the public derivation, b is
   that derivation's canonical bump and b is the claimed bump; when neither
   or both derivations match, or the claimed bump differs, it fails with
   DerivedKeyInvalid. *)
C7_TradeStateNeverFalselyAccepted ==
    TradeStateChecked
    => /\ res.ok =>
            /\ MatchesPrivate # MatchesPublic
            /\ res.val = inp.ts_bump
            /\ MatchesPrivate => res.val = PrivateDerivation.bump
            /\ MatchesPublic => res.val = PublicDerivation.bump
       /\ (\/ ~MatchesPrivate /\ ~MatchesPublic
           \/ MatchesPrivate /\ MatchesPublic
           \/ MatchesPrivate /\ ~MatchesPublic /\ PrivateDerivation.bump # inp.ts_bump
           \/ MatchesPublic /\ ~MatchesPrivate /\ PublicDerivation.bump # inp.ts_bump)
          => res = Err("DerivedKeyInvalid")

(* A candidate that is the public derivation only, with its canonical
   bump claimed, was accepted *)
C7_Witness ==
    /\ TradeStateChecked
    /\ res.ok
    /\ MatchesPublic
    /\ ~MatchesPrivate
    /\ res.val = PublicDerivation.bump

(* A candidate that is both derivations at once was rejected *)
C7_BothMatchRejected ==
    /\ TradeStateChecked
    /\ MatchesPublic
    /\ MatchesPrivate
    /\ inp.ts_bump = PublicDerivation.bump
    /\ res = Err("DerivedKeyInvalid")

(* C8: a candidate that is the private derivation and not the public one,
   claimed with its canonical bump, is accepted with that bump; the same
   for a candidate that is only the public derivation; a claimed bump that
   is the bump of no matching derivation is rejected. *)
C8_DualPathResolution ==
    TradeStateChecked
    => /\ (MatchesPrivate /\ ~MatchesPublic /\ inp.ts_bump = PrivateDerivation.bump)
             => res = Ok(PrivateDerivation.bump)
       /\ (MatchesPublic /\ ~MatchesPrivate /\ inp.ts_bump = PublicDerivation.bump)
             => res = Ok(PublicDerivation.bump)
       /\ (/\ ~(MatchesPrivate /\ inp.ts_bump = PrivateDerivation.bump)
           /\ ~(MatchesPublic /\ inp.ts_bump = PublicDerivation.bump))
             => ~res.ok

(* A candidate that is the private derivation only was accepted without
   the caller saying which variant it is *)
C8_Witness ==
    /\ TradeStateChecked
    /\ MatchesPrivate
    /\ ~MatchesPublic
    /\ res = Ok(PrivateDerivation.bump)
    /\ inp.wallet # inp.token_holder

(* C9: assert_derivation, of either program, returns the canonical bump
   exactly when the account's address is the address derived from the
   seeds and the program id, and fails with DerivedKeyInvalid otherwise;
   the derived pair is a function of the seeds and the program id alone. *)
C9_DerivationVerified ==
    (inp.kind = "derivation" /\ pc # "start")
    => LET d == FindProgramAddress(inp.path, inp.program_id)
       IN  /\ d.found
           /\ IsCanonicalBump(d.bump, d.key, inp.path, inp.program_id)
           /\ res.ok <=> inp.account = d.key
           /\ res.ok => /\ res.val = d.bump
                        /\ IsCanonicalBump(res.val, inp.account, inp.path,
                                           inp.program_id)
           /\ ~res.ok => res = Err("DerivedKeyInvalid")

(* The auction-house assert_derivation accepted an account whose address
   is the one derived from three seeds, at a bump seed below the highest *)
C9_Witness ==
    /\ inp.kind = "derivation"
    /\ pc = "done"
    /\ inp.program_id = AuctionHouseProgram
    /\ Len(inp.path) = 3
    /\ res.ok
    /\ res.val < MaxBumpSeed

(* C10: verify_withdrawal on an account with balance B and minimum reserve
   R fails with InsufficientFunds for an amount A > B, returns
   max(0, R - (B - A)) for A <= B, and never changes the balance. *)
C10_VerifyWithdrawal ==
    (inp.kind = "withdrawal" /\ pc # "start")
    => /\ inp.amount > inp.lamports => res = Err("InsufficientFunds")
       /\ inp.amount <= inp.lamports =>
            res = Ok(IF inp.rent_minimum - (inp.lamports - inp.amount) > 0
                     THEN inp.rent_minimum - (inp.lamports - inp.amount)
                     ELSE 0)
       /\ bal[EscrowKey] = inp.lamports
       /\ bal = InitialBal(inp)

(* A withdrawal of 5 from 10 with a reserve of U64Max needs U64Max - 5 more *)
C10_Witness ==
    /\ inp.kind = "withdrawal"
    /\ pc = "done"
    /\ inp.lamports = 10
    /\ inp.amount = 5
    /\ inp.rent_minimum = U64Max
    /\ res = Ok(U64Max - 5)

----------------------------------------------------------------------------
(* C11: verify_deposit on an account with balance B and minimum reserve R
   fails with NumericalOverflow exactly when B + amount exceeds the 64-bit
   unsigned range; otherwise it returns max(0, R - (B + amount)).  The call
   changes no balance. *)
C11_VerifyDeposit ==
    (inp.kind = "deposit" /\ pc # "start") =>
        LET B == inp.lamports
            R == inp.rent_minimum
            A == inp.amount
        IN  /\ (B + A > U64Max) <=> (~res.ok /\ res.err = "NumericalOverflow")
            /\ (B + A <= U64Max) =>
                  /\ res.ok
                  /\ res.val = (IF R - (B + A) > 0 THEN R - (B + A) ELSE 0)
            /\ bal = InitialBal(inp)

(* A deposit that ends one unit past the range is refused *)
C11_Witness ==
    /\ inp.kind = "deposit"
    /\ inp.lamports = U64Max - 5 /\ inp.amount = 6
    /\ ~res.ok /\ res.err = "NumericalOverflow"

----------------------------------------------------------------------------
(* The accounts a positive transfer of the settlement debited or credited *)
Touched ==
    {issued[i].from : i \in {j \in 1..Len(issued) : issued[j].amount > 0}}
        \cup {issued[i].to : i \in {j \in 1..Len(issued) : issued[j].amount > 0}}

(* C12: after any successful sequence of settlement transfers (commission
   to treasury, royalties to recipients), no account that was debited or
   credited has a balance below its minimum-reserve floor. *)
C12_ReserveFloorKept ==
    (Settling /\ inp.is_native /\ pc \in {"royalties_paid", "done"}) =>
        \A k \in Touched : bal[k] >= MinimumReserve

----------------------------------------------------------------------------
(* The balances when every transfer of log has taken effect on b *)
RECURSIVE Applied(_, _)
Applied(log, b) ==
    IF log = <<>> THEN b
    ELSE LET ix == Head(log)
         IN  Applied(Tail(log),
                     IF ix.from = ix.to THEN b
                     ELSE [b EXCEPT ![ix.from] = @ - ix.amount,
                                    ![ix.to] = @ + ix.amount])

(* C13: a settlement is all-or-nothing.  When any check or transfer of it
   has failed (the commission transfer, the creation of a payment account,
   a royalty transfer, an arithmetic check) every balance equals its value
   before the settlement started; in every other state all the transfers
   issued so far have taken effect.  No state holds some transfers of a
   failed settlement. *)
C13_AllOrNothing ==
    Settling =>
        /\ (pc = "failed") <=>
              \/ (feeRes # NoResult /\ ~feeRes.ok)
              \/ (royalty.res # NoResult /\ ~royalty.res.ok)
              \/ (res # NoResult /\ ~res.ok)
        /\ pc = "failed" => bal = InitialBal(inp)
        /\ pc # "failed" => bal = Applied(issued, InitialBal(inp))

(* The commission and the first royalty were transferred, then the second
   royalty transfer failed, and nothing of it is left *)
C13_Witness ==
    /\ Settling /\ pc = "failed"
    /\ feeRes.ok /\ feeRes.val > 0
    /\ ~royalty.res.ok /\ royalty.res.err = "InsufficientFunds"
    /\ Len(issued) = 3
    /\ bal = InitialBal(inp)

----------------------------------------------------------------------------
(* The addresses derived for the tuple of a request: private and public *)
OwnTradeStates ==
    [i \in OrderInputs, price \in OrderPrices, th \in TokenHolders |->
        {TradeStateAddress(i.wallet, price, public, th).key : public \in BOOLEAN}]

Requested(m) == OwnTradeStates[inp, m.last.price, m.last.th]

(* C14: once a trade state has been closed by a sale or a cancellation,
   every later sale for the same wallet/asset/price/size tuple fails for
   as long as it stays closed: a sale succeeds only against an open trade
   state at an address derived from the tuple, and closes it, so no order
   is executed twice. *)
C14_ClosedTradeStateNotReExecuted ==
    [][(inp.kind = "orders" /\ market'.last.seq # market.last.seq) =>
         /\ (Requested(market') \cap market.open = {}) => ~market'.last.ok
         /\ market'.last.ok =>
               /\ market'.last.ts \in Requested(market') \cap market.open
               /\ market'.last.ts \in market'.closed \ market'.open]_vars

(* A sale closed the trade state of a tuple; the same sale, requested
   again with the same address, has failed *)
C14_Witness ==
    /\ inp.kind = "orders"
    /\ market.last.op = "execute_sale" /\ ~market.last.ok
    /\ market.last.ts \in Requested(market) \cap market.closed
    /\ Requested(market) \cap market.open = {}

----------------------------------------------------------------------------
(* C15: assert_valid_auctioneer_and_scope returns Ok exactly when the
   auction house names this auctioneer record, the record names the given
   authority and this auction house back, and the auction house's bit for
   the required scope is set.  The relationship checks come first: any
   relationship mismatch gives InvalidAuctioneer, also when the bit is
   unset; with the relationships intact an unset bit gives
   MissingAuctioneerScope. *)
Related ==
    /\ inp.auction_house.auctioneer_address = inp.auctioneer_pda.key
    /\ inp.auctioneer_pda.auctioneer_authority = inp.auctioneer_authority
    /\ inp.auctioneer_pda.auction_house = inp.auction_house.key

Granted == inp.auction_house.scopes[inp.scope]

C15_AuctioneerAndScope ==
    (inp.kind = "auctioneer" /\ pc # "start") =>
        /\ res.ok <=> (Related /\ Granted)
        /\ ~Related => (~res.ok /\ res.err = "InvalidAuctioneer")
        /\ (Related /\ ~Granted) => (~res.ok /\ res.err = "MissingAuctioneerScope")

(* Only the back reference is wrong and the bit is unset too: the call
   reports the relationship *)
C15_Witness ==
    /\ inp.kind = "auctioneer" /\ pc = "failed"
    /\ inp.auction_house.auctioneer_address = inp.auctioneer_pda.key
    /\ inp.auctioneer_pda.auctioneer_authority = inp.auctioneer_authority
    /\ inp.auctioneer_pda.auction_house # inp.auction_house.key
    /\ ~Granted
    /\ res.err = "InvalidAuctioneer"

----------------------------------------------------------------------------
(* C16: assert_scopes_eq returns Ok if and only if every scope of the list
   has its bit set in the bitmap (the empty list is accepted); otherwise it
   returns MissingAuctioneerScope at the first unset scope in list order,
   without looking at the scopes after it. *)
Unset == {i \in 1..Len(inp.scopes) : ~inp.scopes_array[inp.scopes[i]]}

C16_ScopesEq ==
    (inp.kind = "scopes" /\ pc # "start") =>
        /\ res.ok <=> (Unset = {})
        /\ res.ok => res.val = Len(inp.scopes)
        /\ ~res.ok =>
              /\ res.err = "MissingAuctioneerScope"
              /\ res.val \in Unset
              /\ \A i \in Unset : res.val <= i

(* The second of three scopes is unset, the third is unset too: the call
   stopped at the second *)
C16_Witness ==
    /\ inp.kind = "scopes" /\ pc = "failed"
    /\ Len(inp.scopes) = 3
    /\ Unset = {2, 3}
    /\ res.val = 2

----------------------------------------------------------------------------
(* What the delegation claims are stated with *)
Delegating == inp.kind = "delegation" /\ pc # "start"

IsTokenAccount(a) == a.data_len = SplAccountLen /\ ~a.empty

(* a is the associated token account of wallet w for mint m *)
CanonicalTokenAccount(a, w, m) ==
    /\ a.program = "token" /\ IsTokenAccount(a)
    /\ a.tok_owner = w /\ a.tok_mint = m
    /\ a.key = AtaAddress(w, m)

(* C17: token path of assert_valid_delegation.  When the source account is
   a token account the call succeeds only if (here: exactly if) its
   delegated amount equals the payment size, neither less nor more, its
   delegate is the transfer authority, and the source and the destination
   are the associated token accounts of their wallets for the mint; a
   wrong delegated amount or delegate fails with InvalidAccountData. *)
C17_TokenDelegation ==
    (Delegating /\ IsTokenAccount(inp.src_account)) =>
        LET exact == inp.src_account.delegated_amount = inp.paysize
            ours  == /\ inp.src_account.delegate.some
                     /\ inp.src_account.delegate.key = inp.transfer_authority
        IN  /\ res.ok <=>
                  /\ exact /\ ours
                  /\ CanonicalTokenAccount(inp.src_account, inp.src_wallet.key, inp.mint)
                  /\ CanonicalTokenAccount(inp.dst_account, inp.dst_wallet.key, inp.mint)
            /\ (~exact \/ ~ours) => (~res.ok /\ res.err = "InvalidAccountData")

(* More than the payment size is delegated to the right authority, between
   the right accounts: refused *)
C17_Witness ==
    /\ Delegating /\ IsTokenAccount(inp.src_account)
    /\ inp.src_account.delegated_amount > inp.paysize
    /\ inp.src_account.delegate = Delegate(inp.transfer_authority)
    /\ CanonicalTokenAccount(inp.src_account, inp.src_wallet.key, inp.mint)
    /\ CanonicalTokenAccount(inp.dst_account, inp.dst_wallet.key, inp.mint)
    /\ ~res.ok /\ res.err = "InvalidAccountData"

----------------------------------------------------------------------------
(* C18: native path of assert_valid_delegation.  The native checks apply
   only when the source account does not deserialize as a token account,
   and the token checks only when it does.  On the native path the call
   succeeds only if the mint is the native mint (else ExpectedSolAccount),
   the source wallet signed (else SOLWalletMustSign) and the source and
   destination accounts are the claimed wallets (else PublicKeyMismatch),
   checked in that order. *)
C18_NativeDelegation ==
    Delegating =>
        /\ IsTokenAccount(inp.src_account) =>
              res.err \notin {"ExpectedSolAccount", "SOLWalletMustSign"}
        /\ ~IsTokenAccount(inp.src_account) =>
              res = (IF inp.mint # NativeMint THEN Err("ExpectedSolAccount")
                     ELSE IF ~inp.src_wallet.is_signer THEN Err("SOLWalletMustSign")
                     ELSE IF inp.src_account.key # inp.src_wallet.key
                             \/ inp.dst_account.key # inp.dst_wallet.key
                     THEN Err("PublicKeyMismatch")
                     ELSE Ok(0))

(* Neither the native mint nor a signature: the mint is reported *)
C18_Witness ==
    /\ Delegating /\ ~IsTokenAccount(inp.src_account)
    /\ inp.mint # NativeMint /\ ~inp.src_wallet.is_signer
    /\ res.err = "ExpectedSolAccount"

(* A native payment between the two wallets, signed by the payer *)
C18_Accepted ==
    /\ Delegating /\ ~IsTokenAccount(inp.src_account)
    /\ inp.src_account.key = inp.src_wallet.key
    /\ inp.dst_account.key = inp.dst_wallet.key
    /\ res.ok

----------------------------------------------------------------------------
(* C19: commission and royalty are computed independently against the same
   original size.  For rates in [0, 10000] and shares in [0, 100] the
   commission is a function of size and the auction house's rate alone, and every recipient fee, the
   remaining fee and the value returned for the seller are functions of
   size, the metadata's rate and the shares alone: none of them changes
   with the commission or with what the commission left in the escrow.
   Scaled by 1000: size 1000, commission 200 bps, royalty 500 bps, shares
   60/40 give commission 20, fees 30 and 20, remaining_fee 0, returned
   950. *)
RoyaltyFeesOf(size, bps, creators) ==
    [i \in 1..Len(creators) |-> ExactShare(creators[i].share, ExactFee(bps, size))]

ReturnedOf(size, bps, creators) ==
    (size - ExactFee(bps, size))
        + (ExactFee(bps, size) - SumSeq(RoyaltyFeesOf(size, bps, creators)))

C19_IndependentCuts ==
    /\ (FeesPaid /\ inp.ah_bps <= BasisPointsDenominator) =>
          feeRes.val = ExactFee(inp.ah_bps, inp.size)
    /\ (/\ RoyaltiesPaid
        /\ inp.metadata.seller_fee_basis_points <= BasisPointsDenominator
        /\ \A i \in 1..Len(inp.metadata.creators.list) :
              inp.metadata.creators.list[i].share <= PercentDenominator) =>
          LET bps == inp.metadata.seller_fee_basis_points
              cr  == inp.metadata.creators.list
          IN  /\ royalty.total_fee = ExactFee(bps, inp.size)
              /\ royalty.remaining_size = inp.size - ExactFee(bps, inp.size)
              /\ royalty.fees = RoyaltyFeesOf(inp.size, bps, cr)
              /\ royalty.remaining_fee
                    = ExactFee(bps, inp.size) - SumSeq(RoyaltyFeesOf(inp.size, bps, cr))
              /\ royalty.res.val = ReturnedOf(inp.size, bps, cr)

(* The end-to-end scenario, scaled by 1000 *)
C19_Witness ==
    /\ RoyaltiesPaid
    /\ inp.size = 1000 /\ inp.ah_bps = 200
    /\ inp.metadata.seller_fee_basis_points = 500
    /\ feeRes.val = 20
    /\ royalty.fees = <<30, 20>>
    /\ royalty.remaining_fee = 0
    /\ royalty.remaining_size = 950
    /\ royalty.res.val = 950

----------------------------------------------------------------------------
(* C20: the commission is monotonic non-decreasing in both arguments: for
   all sizes s1 <= s2 and rates b1 <= b2 within [0, 10000],
   commission(s1, b1) <= commission(s2, b2).  Here (s2, b2) are the size
   and rate of the call just made, (s1, b1) every smaller pair of the
   grid. *)
SmallerSizes == {s \in Sizes \cup {inp.size - 1, inp.size \div 2} : 0 <= s /\ s <= inp.size}

SmallerRates == {b \in {0, 1, 199, 200, 9999, 10000} : b <= inp.ah_bps}

C20_CommissionMonotonic ==
    (FeesPaid /\ pc = "fees_paid" /\ inp.ah_bps <= BasisPointsDenominator) =>
        \A s1 \in SmallerSizes, b1 \in SmallerRates :
            /\ BasisPointFee(b1, s1).ok
            /\ BasisPointFee(b1, s1).val <= feeRes.val

(* The largest size at the full rate: every smaller pair was compared with
   a commission of the whole size *)
C20_Witness ==
    /\ FeesPaid /\ pc = "fees_paid"
    /\ inp.size = U64Max /\ inp.ah_bps = BasisPointsDenominator
    /\ feeRes.val = U64Max
    /\ BasisPointFee(200, 1000).val = 20

----------------------------------------------------------------------------
(* The commission and the royalty of a well-formed request (rates within
   the denominator, shares summing to 100, every recipient's accounts
   supplied) together exceed the size *)
OverCommitted ==
    /\ Settling
    /\ inp.accounts = ExactAccounts(inp.metadata.creators.list, inp.is_native, "ok")
    /\ inp.ah_bps <= BasisPointsDenominator
    /\ inp.metadata.seller_fee_basis_points <= BasisPointsDenominator
    /\ ValidShares
    /\ ExactFee(inp.ah_bps, inp.size)
          + ExactFee(inp.metadata.seller_fee_basis_points, inp.size) > inp.size

(* C21: when the combined commission and royalty exceed the sale size the
   settlement fails with NumericalOverflow, not with another error and not
   with a paid-out settlement, and no funds are moved. *)
C21_OverCommitmentOverflows ==
    (OverCommitted /\ pc \in {"done", "failed"}) =>
        /\ pc = "failed"
        /\ \/ (feeRes # NoResult /\ ~feeRes.ok /\ feeRes.err = "NumericalOverflow")
           \/ (royalty.res # NoResult /\ ~royalty.res.ok
                 /\ royalty.res.err = "NumericalOverflow")
           \/ (res # NoResult /\ ~res.ok /\ res.err = "NumericalOverflow")
        /\ bal = InitialBal(inp)

(* An over-committed settlement from an ample escrow that went through *)
C21_PaidOut ==
    /\ OverCommitted /\ pc = "done"
    /\ bal[TreasuryKey] + HeldByRecipients + bal[SellerKey] > inp.size

(* An over-committed settlement that failed in a transfer for lack of funds *)
C21_TransferFailed ==
    /\ OverCommitted /\ pc = "failed"
    /\ feeRes.ok
    /\ ~royalty.res.ok /\ royalty.res.err = "InsufficientFunds"

----------------------------------------------------------------------------
(* The account recipient i is paid into: its wallet on the native path, its
   associated token account of the treasury mint on the token path *)
PaymentAccount(i) ==
    IF inp.is_native THEN inp.metadata.creators.list[i].address
    ELSE AtaAddress(inp.metadata.creators.list[i].address, TreasuryMint)

(* The transfers of the recipients from i on with a fee above 0 *)
RECURSIVE PaymentsFrom(_)
PaymentsFrom(i) ==
    IF i > Len(royalty.fees) THEN <<>>
    ELSE (IF royalty.fees[i] > 0
          THEN <<TransferIx(IF inp.is_native THEN "system" ELSE "token",
                            EscrowKey, PaymentAccount(i), royalty.fees[i])>>
          ELSE <<>>) \o PaymentsFrom(i + 1)

(* The account k held data when it was passed in *)
ExistedAtCall(k) ==
    \E j \in 1..Len(inp.accounts) : inp.accounts[j].key = k /\ ~inp.accounts[j].empty

(* C22: in a successful pay_creator_fees every recipient with
   recipient_fee > 0 is paid exactly recipient_fee from the escrow into its
   payment-receiving account, the recipients in list order, and that account
   exists before the transfer: it held data at the call or was created
   earlier in the call. *)
C22_PaidInOrderIntoExistingAccounts ==
    RoyaltiesPaid =>
        /\ SelectSeq(royalty.events, LAMBDA e : e.kind # "create") = PaymentsFrom(1)
        /\ \A p \in 1..Len(royalty.events) :
              royalty.events[p].kind = "token" =>
                 \/ ExistedAtCall(royalty.events[p].to)
                 \/ \E q \in 1..(p - 1) :
                       royalty.events[q] = CreateEvent(royalty.events[p].to)

(* Two recipients without token accounts were each given one and then paid *)
C22_Witness ==
    /\ RoyaltiesPaid /\ ~inp.is_native
    /\ royalty.fees = <<30, 20>>
    /\ royalty.events
         = <<CreateEvent(AtaAddress(1, TreasuryMint)),
             TransferIx("token", EscrowKey, AtaAddress(1, TreasuryMint), 30),
             CreateEvent(AtaAddress(2, TreasuryMint)),
             TransferIx("token", EscrowKey, AtaAddress(2, TreasuryMint), 20)>>

----------------------------------------------------------------------------
(* The position of recipient i's wallet in remaining_accounts *)
WalletPosition(i) == IF inp.is_native THEN i ELSE 2 * i - 1

(* The accounts needed for all recipients *)
AccountsNeeded ==
    IF inp.is_native THEN Len(inp.metadata.creators.list)
    ELSE 2 * Len(inp.metadata.creators.list)

(* Recipient i finds the account with its own identity at its position *)
OwnAccountSupplied(i) ==
    /\ WalletPosition(i) <= Len(inp.accounts)
    /\ inp.accounts[WalletPosition(i)].key = inp.metadata.creators.list[i].address

(* pay_creator_fees was called and got as far as the recipient list *)
DistributionStarted ==
    /\ Settling /\ royalty.res # NoResult
    /\ inp.metadata.creators.some
    /\ BasisPointFee(inp.metadata.seller_fee_basis_points, inp.size).ok
    /\ checked_sub(inp.size,
                   BasisPointFee(inp.metadata.seller_fee_basis_points, inp.size).val).ok

(* C24: the royalty distribution walks the supplied accounts as a cursor in
   recipient order.  When the accounts run out before every recipient has
   been processed, or the account at a recipient's position is not that
   recipient's, pay_creator_fees fails (with PublicKeyMismatch when the
   first recipient's account is another's); a successful call has processed
   every recipient, none skipped, and every transfer ever issued goes to
   the paid recipient's own account. *)
C24_CursorInRecipientOrder ==
    DistributionStarted =>
        LET cr == inp.metadata.creators.list
        IN  /\ Len(inp.accounts) < AccountsNeeded => ~royalty.res.ok
            /\ (\E i \in 1..Len(cr) : ~OwnAccountSupplied(i)) => ~royalty.res.ok
            /\ (/\ ValidShares
                /\ inp.metadata.seller_fee_basis_points <= BasisPointsDenominator
                /\ Len(inp.accounts) >= 1
                /\ inp.accounts[1].key # cr[1].address)
                  => royalty.res = Err("PublicKeyMismatch")
            /\ royalty.res.ok => Len(royalty.fees) = Len(cr)
            /\ \A p \in 1..Len(royalty.events) :
                  royalty.events[p].kind # "create" =>
                     \E i \in 1..Len(royalty.fees) :
                        /\ royalty.events[p].to = PaymentAccount(i)
                        /\ royalty.events[p].amount = royalty.fees[i]
                        /\ OwnAccountSupplied(i)

(* The first recipient was paid, then the accounts ran out *)
C24_Witness ==
    /\ DistributionStarted /\ inp.is_native
    /\ Len(inp.metadata.creators.list) = 2
    /\ Len(inp.accounts) = 1
    /\ royalty.res = Err("NotEnoughAccountKeys")
    /\ Len(royalty.events) = 1
    /\ royalty.events[1].to = 1

(* The first account supplied was a stranger's *)
C24_MismatchRejected ==
    /\ DistributionStarted
    /\ inp.accounts # <<>> /\ inp.accounts[1].key = StrangerKey
    /\ royalty.res = Err("PublicKeyMismatch")
    /\ royalty.events = <<>>

----------------------------------------------------------------------------
(* C25: a recipient whose recipient_fee is 0 causes no side effect in
   settlement, on the native and on the token path: no transfer is issued to
   it and no payment-receiving account is created for it. *)
C25_ZeroFeeNoSideEffect ==
    (Settling /\ royalty.res # NoResult /\ inp.metadata.creators.some) =>
        \A i \in 1..Len(royalty.fees) :
            royalty.fees[i] = 0 =>
               \A p \in 1..Len(royalty.events) :
                  royalty.events[p].to # PaymentAccount(i)

(* A recipient of share 0 on the native path: processed, nothing issued *)
C25_NativeZeroFee ==
    /\ RoyaltiesPaid /\ inp.is_native
    /\ royalty.fees = <<50, 0>>
    /\ Len(royalty.events) = 1

----------------------------------------------------------------------------
(* The discriminators of each family, in the order of its variants *)
BidFamily ==
    << <<169, 84, 218, 35, 42, 206, 16, 171>>, <<102, 6, 61, 18, 1, 218, 235, 234>>,
       <<221, 239, 99, 240, 86, 46, 213, 126>>, <<17, 106, 133, 46, 229, 48, 45, 208>> >>

ListingFamily ==
    << <<51, 230, 133, 164, 1, 127, 131, 173>>, <<251, 60, 142, 195, 121, 203, 26, 183>> >>

PurchaseFamily ==
    << <<37, 74, 217, 157, 79, 49, 35, 6>>, <<68, 125, 32, 65, 251, 43, 35, 53>> >>

CancelFamily ==
    << <<232, 219, 223, 41, 219, 236, 220, 190>>, <<197, 97, 152, 196, 115, 204, 64, 215>> >>

FamilyOf(kind) ==
    CASE kind = "bid" -> BidFamily
      [] kind = "listing" -> ListingFamily
      [] kind = "purchase" -> PurchaseFamily
      [] OTHER -> CancelFamily

Decoders == {"bid", "listing", "purchase", "cancel"}

Decoded(kind, sighash) ==
    CASE kind = "bid" -> AssertProgramBidInstruction(sighash)
      [] kind = "listing" -> AssertProgramListingInstruction(sighash)
      [] kind = "purchase" -> AssertProgramPurchaseInstruction(sighash)
      [] OTHER -> AssertProgramCancelInstruction(sighash)

RangeOf(f) == {f[i] : i \in 1..Len(f)}

(* C26: each of the four discriminator decoders is a closed decode: called
   on a slice it returns a variant exactly when the slice is one of the
   8-byte values of its own family (the variant of that value), and
   InstructionMismatch for every other input, slices that are not 8 bytes
   long and the discriminators of the other three families included; the
   ten discriminators are pairwise distinct, so no input is accepted by two
   decoders. *)
C26_ClosedDecode ==
    (inp.kind \in Decoders /\ pc # "start") =>
        LET family == FamilyOf(inp.kind)
        IN  /\ res.ok <=> inp.sighash \in RangeOf(family)
            /\ res.ok => /\ Len(inp.sighash) = 8
                         /\ family[res.val + 1] = inp.sighash
                         /\ \A k \in Decoders \ {inp.kind} :
                               Decoded(k, inp.sighash) = Err("InstructionMismatch")
            /\ ~res.ok => res = Err("InstructionMismatch")
            /\ Cardinality(UNION {RangeOf(FamilyOf(k)) : k \in Decoders}) = 10

(* The bid decoder was handed the discriminator of a listing and refused it *)
C26_Witness ==
    /\ inp.kind = "bid" /\ pc = "failed"
    /\ inp.sighash = <<51, 230, 133, 164, 1, 127, 131, 173>>
    /\ res = Err("InstructionMismatch")
    /\ AssertProgramListingInstruction(inp.sighash) = Ok(Sell)

(* A discriminator followed by one more byte was refused *)
C26_LongRefused ==
    /\ inp.kind = "cancel" /\ pc = "failed"
    /\ inp.sighash = <<197, 97, 152, 196, 115, 204, 64, 215, 0>>

(* The auctioneer's private bid was decoded *)
C26_Decoded ==
    /\ inp.kind = "bid" /\ pc = "done"
    /\ res = Ok(AuctioneerPrivateSale)

----------------------------------------------------------------------------
(* assert_data_valid was called on a record that carries a recipient list
   and whose strings and royalty rate pass the checks made before the list *)
ListChecked ==
    /\ inp.kind = "metadata" /\ pc # "start"
    /\ inp.data.creators.some
    /\ inp.data.name_len <= MAX_NAME_LENGTH
    /\ inp.data.symbol_len <= MAX_SYMBOL_LENGTH
    /\ inp.data.uri_len <= MAX_URI_LENGTH
    /\ inp.data.seller_fee_basis_points <= BasisPointsDenominator

DistinctAddresses(creators) ==
    \A i, j \in 1..Len(creators) : creators[i].address = creators[j].address => i = j

(* Between 1 and MAX_CREATOR_LIMIT recipients, pairwise distinct, shares
   summing to exactly 100 *)
WellFormedList(creators) ==
    /\ Len(creators) >= 1
    /\ Len(creators) <= MAX_CREATOR_LIMIT
    /\ DistinctAddresses(creators)
    /\ ShareSum(creators) = 100

AcceptedWellFormed ==
    (inp.kind = "metadata" /\ pc # "start" /\ res.ok) =>
        /\ inp.data.seller_fee_basis_points <= BasisPointsDenominator
        /\ inp.data.creators.some => WellFormedList(inp.data.creators.list)

(* C23 as stated: every accepted record with a recipient list has between
   1 and MAX_CREATOR_LIMIT recipients with pairwise distinct addresses and
   shares summing to exactly 100, and a rate of at most 10000; any other
   list is rejected with ShareTotalMustBe100 or NumericalOverflowError. *)
C23_OtherListsRejectedOnShareTotal ==
    /\ AcceptedWellFormed
    /\ (ListChecked /\ ~WellFormedList(inp.data.creators.list)) =>
          res \in {Err("ShareTotalMustBe100"), Err("NumericalOverflowError")}

(* C23: every accepted record with a recipient list has between 1 and
   MAX_CREATOR_LIMIT recipients with pairwise distinct addresses and shares
   summing to exactly 100, and a rate of at most 10000; any other list is
   rejected: a list that is too long with CreatorsTooLong, an empty one
   with CreatorsMustBeAtleastOne, one with a repeated address with
   DuplicateCreatorAddress, and one whose shares do not sum to 100 with
   ShareTotalMustBe100, with NumericalOverflowError when the 8-bit share
   sum overflows, or with the error of a verified flag met first. *)
C23_AcceptedListsWellFormed ==
    /\ AcceptedWellFormed
    /\ ListChecked =>
          LET creators == inp.data.creators.list
          IN  /\ ~WellFormedList(creators) => ~res.ok
              /\ Len(creators) > MAX_CREATOR_LIMIT => res = Err("CreatorsTooLong")
              /\ Len(creators) = 0 => res = Err("CreatorsMustBeAtleastOne")
              /\ (/\ Len(creators) >= 1 /\ Len(creators) <= MAX_CREATOR_LIMIT
                  /\ ~DistinctAddresses(creators))
                    => res = Err("DuplicateCreatorAddress")
              /\ (/\ Len(creators) >= 1 /\ Len(creators) <= MAX_CREATOR_LIMIT
                  /\ DistinctAddresses(creators)
                  /\ ShareSum(creators) # 100)
                    => /\ res \in {Err("ShareTotalMustBe100"),
                                   Err("NumericalOverflowError"),
                                   Err("CannotVerifyAnotherCreator"),
                                   Err("CannotUnverifyAnotherCreator")}
                       /\ res = Err("NumericalOverflowError")
                             => ShareSum(creators) > U8Max
                       /\ inp.allow_direct_creator_writes
                             => res \in {Err("ShareTotalMustBe100"),
                                         Err("NumericalOverflowError")}

(* A list naming one address twice was rejected although the shares of its
   distinct addresses are 100 *)
C23_Witness ==
    /\ ListChecked /\ pc = "failed"
    /\ inp.data.creators.list = <<Creator(1, 50, FALSE), Creator(1, 100, FALSE)>>
    /\ res = Err("DuplicateCreatorAddress")

(* A list of three distinct recipients with shares 33, 33, 34 was accepted *)
C23_Accepted ==
    /\ ListChecked /\ pc = "done"
    /\ Len(inp.data.creators.list) = 3
    /\ inp.data.seller_fee_basis_points = BasisPointsDenominator

(* Two shares overflowing the 8-bit sum *)
C23_Overflowed ==
    /\ ListChecked /\ res = Err("NumericalOverflowError")
    /\ ShareSum(inp.data.creators.list) = 356

----------------------------------------------------------------------------
(* C27: for an arbitrary recipient list (shares of any sum, an empty list,
   no list at all), whenever pay_creator_fees succeeds the total paid to
   recipients is at most total_royalty and total paid plus the returned
   value equals size; with no recipient list nothing is paid and the full
   size is returned; the running remaining_fee subtraction underflows
   (NumericalOverflow) only when the shares sum to more than 100. *)
C27_ConservationForAnyList ==
    /\ RoyaltiesPaid =>
          /\ PaidToRecipients <= royalty.total_fee
          /\ PaidToRecipients + royalty.res.val = inp.size
          /\ PaidToRecipients = SumSeq(royalty.fees)
          /\ ~inp.metadata.creators.some =>
                /\ ToRecipients(issued) = <<>>
                /\ royalty.res.val = inp.size
    /\ (DistributionStarted /\ royalty.res = Err("NumericalOverflow")) =>
          ShareSum(inp.metadata.creators.list) > 100

(* Shares of 33 and 33: the call succeeded, paid less than the royalty and
   returned the rest *)
C27_Witness ==
    /\ RoyaltiesPaid
    /\ inp.size = 1000 /\ inp.metadata.seller_fee_basis_points = 10000
    /\ royalty.fees = <<330, 330>>
    /\ PaidToRecipients = 660
    /\ royalty.res.val = 340

(* Shares of 100 and 50 made the running subtraction underflow *)
C27_Underflowed ==
    /\ DistributionStarted
    /\ royalty.res = Err("NumericalOverflow")
    /\ ShareSum(inp.metadata.creators.list) = 150
    /\ royalty.total_fee > 0

(* Without a recipient list the full size came back *)
C27_NoList ==
    /\ RoyaltiesPaid /\ ~inp.metadata.creators.some
    /\ inp.size = 1000 /\ royalty.res.val = 1000 /\ royalty.total_fee = 1000

----------------------------------------------------------------------------
(* C28: get_fee_payer never lets a wallet pay when the marketplace requires
   sign-off.  If the marketplace authority is a signer the fee account with
   the marketplace signer seeds is chosen, even when the wallet signed too;
   otherwise, if the wallet is a signer, the wallet with empty seeds is
   chosen unless requires_sign_off is set, in which case the call fails
   with CannotTakeThisActionWithoutAuctionHouseSignOff; if neither signed
   it fails with NoPayerPresent. *)
C28_FeePayer ==
    (inp.kind = "fee_payer" /\ pc # "start") =>
        /\ (res.ok /\ res.val.fee_payer = inp.wallet.key) =>
              /\ ~inp.auction_house.requires_sign_off
              /\ ~inp.authority.is_signer
              /\ inp.wallet.is_signer
        /\ inp.authority.is_signer =>
              res = Ok([fee_payer |-> inp.auction_house_fee_account,
                        seeds |-> inp.auction_house_seeds])
        /\ (~inp.authority.is_signer /\ inp.wallet.is_signer) =>
              res = IF inp.auction_house.requires_sign_off
                    THEN Err("CannotTakeThisActionWithoutAuctionHouseSignOff")
                    ELSE Ok([fee_payer |-> inp.wallet.key, seeds |-> <<>>])
        /\ (~inp.authority.is_signer /\ ~inp.wallet.is_signer) =>
              res = Err("NoPayerPresent")

(* A wallet signed alone for a marketplace that requires sign-off *)
C28_Witness ==
    /\ inp.kind = "fee_payer" /\ pc = "failed"
    /\ inp.wallet.is_signer /\ ~inp.authority.is_signer
    /\ inp.auction_house.requires_sign_off
    /\ res = Err("CannotTakeThisActionWithoutAuctionHouseSignOff")

(* Both signed: the fee account pays *)
C28_BothSigned ==
    /\ inp.kind = "fee_payer" /\ pc = "done"
    /\ inp.wallet.is_signer /\ inp.authority.is_signer
    /\ res.val.fee_payer = FeeAccountKey
    /\ res.val.seeds # <<>>

----------------------------------------------------------------------------
(* The verified flag a record gives to address: unverified when the record
   has no list or the list does not name it *)
VerifiedIn(creators, address) ==
    /\ creators.some
    /\ address \in Addresses(creators.list)
    /\ MapGet(creators.list, address).verified

(* The creators the update may not touch: all but the signing update
   authority *)
OtherCreators ==
    (Addresses(inp.data.creators.list) \cup Addresses(inp.existing_metadata.creators.list))
        \ (IF inp.update_authority_is_signer THEN {inp.update_authority} ELSE {})

(* C29: unless direct creator writes are allowed, assert_data_valid accepts
   no update that changes the verified flag of a creator other than the
   signing update authority, a creator absent from a record counting as
   unverified: neither one that sets or clears a flag nor one that drops an
   existing verified creator. *)
C29_VerifiedFlagsKept ==
    (/\ inp.kind = "metadata" /\ pc # "start"
     /\ ~inp.allow_direct_creator_writes
     /\ res.ok) =>
        \A address \in OtherCreators :
            VerifiedIn(inp.data.creators, address)
               <=> VerifiedIn(inp.existing_metadata.creators, address)

(* The same for the updates that carry a recipient list *)
C29_VerifiedFlagsKeptByLists ==
    (/\ inp.kind = "metadata" /\ pc # "start"
     /\ ~inp.allow_direct_creator_writes
     /\ inp.data.creators.some
     /\ res.ok) =>
        \A address \in OtherCreators :
            VerifiedIn(inp.data.creators, address)
               <=> VerifiedIn(inp.existing_metadata.creators, address)

(* An update without a recipient list was accepted over a record with a
   verified creator *)
C29_DroppedByNoList ==
    /\ inp.kind = "metadata" /\ pc = "done"
    /\ ~inp.allow_direct_creator_writes /\ ~inp.update_authority_is_signer
    /\ ~inp.data.creators.some
    /\ VerifiedIn(inp.existing_metadata.creators, 1)

----------------------------------------------------------------------------
(* The supply and the maximum the master edition account holds *)
StoredSupply == GetSupplyOffMasterEdition(master_edition.data)

StoredMaxSupply == GetMaxSupplyOffMasterEdition(master_edition.data)

Larger(a, b) == IF a > b THEN a ELSE b

(* The last call, made without a reservation list, did what it says *)
LastCallApplied ==
    LET c == master_edition.call
    IN  (master_edition.calls > 0 /\ c.reservation_list_is_none) =>
          /\ res.ok =>
                StoredSupply = IF c.edition_override.some
                               THEN Larger(c.edition_override.val, c.me_supply)
                               ELSE c.me_supply + 1
          /\ ~res.ok =>
                /\ StoredSupply = c.me_supply
                /\ res.err = "EditionOverrideCannotBeZero"
                      <=> c.edition_override = Some(0)
                /\ res.err = "NumericalOverflowError"
                      <=> (~c.edition_override.some /\ c.me_supply = U64Max)
                /\ res.err = "MaxEditionsMintedAlready" =>
                      /\ StoredMaxSupply.some
                      /\ (IF c.edition_override.some
                          THEN Larger(c.edition_override.val, c.me_supply)
                          ELSE c.me_supply + 1) > StoredMaxSupply.val
                /\ res.err \in {"EditionOverrideCannotBeZero", "NumericalOverflowError",
                                "MaxEditionsMintedAlready"}

(* C30: over any sequence of calculate_supply_change calls, each called
   with the currently stored supply, the stored master-edition supply never
   decreases and, when a maximum supply is set and the initial supply does
   not exceed it, never exceeds that maximum: a call without a reservation
   list sets the supply to max(edition override, supply), or to supply + 1
   when there is no override, and a rejected call (override 0, overflow,
   new supply above the maximum) leaves the stored supply unchanged. *)
C30_SupplyMonotonicAndCapped ==
    /\ [](inp.kind = "supply" =>
            /\ StoredSupply >= inp.supply
            /\ StoredMaxSupply = inp.max_supply
            /\ (inp.max_supply.some /\ inp.supply <= inp.max_supply.val)
                  => StoredSupply <= inp.max_supply.val
            /\ LastCallApplied)
    /\ [][inp.kind = "supply" =>
            /\ GetSupplyOffMasterEdition(master_edition'.data) >= StoredSupply
            /\ master_edition'.call.me_supply = StoredSupply
            /\ ~res'.ok => master_edition'.data = master_edition.data]_vars

(* After an override above the supply and a plain call, a call with an
   override below the supply was accepted and left the supply where it was *)
C30_Witness ==
    /\ inp.kind = "supply" /\ inp.supply = 1 /\ inp.max_supply = Some(6)
    /\ master_edition.calls = 3
    /\ master_edition.call.reservation_list_is_none
    /\ master_edition.call.edition_override = Some(2)
    /\ master_edition.call.me_supply = 5
    /\ res.ok
    /\ StoredSupply = 5

(* A call that would pass the maximum was rejected *)
C30_Capped ==
    /\ inp.kind = "supply" /\ inp.max_supply = Some(6)
    /\ master_edition.call.me_supply = 6
    /\ res = Err("MaxEditionsMintedAlready")
    /\ StoredSupply = 6

(* The supply overflowed *)
C30_Overflowed ==
    /\ inp.kind = "supply"
    /\ master_edition.calls > 0
    /\ res = Err("NumericalOverflowError")
    /\ StoredSupply = U64Max

====
